---- MODULE Spec2Model ----
(***************************************************************************)
(* multiUploader: the resilient HTTP transport (internal/httpclient) and   *)
(* the upload session controller (internal/ui/upload_tab.go) with the      *)
(* session-POST providers it drives.                                       *)
(*                                                                         *)
(* Time is counted in half seconds, so that the initial backoff interval   *)
(* of 500ms is 1.                                                          *)
(***************************************************************************)
EXTENDS Integers, Sequences, FiniteSets, TLC

VARIABLES
    do,         \* the frame of the Client.Do call in progress (one at a time)
    ctxDone,    \* the contexts whose cancel function has been called
    tab,        \* the fields of the UploadTab
    gen,        \* the number of uploads startUpload has begun
    up,         \* per upload: its goroutines, its channels and what was shown
    panicked,   \* a goroutine has panicked (the process is gone)
    parts,      \* a chunked provider upload (Rootz, AkiraBox)
    counter,    \* a ByteCounter and the goroutines that add to it
    stream,     \* a counting wrapper around a stream
    calc,       \* a SpeedCalculator
    eta,        \* a call of CalculateETA
    prefs,      \* the preferences behind the ConfigManagers
    shared,     \* the shared clients of httpclient and the goroutines asking
    body,       \* the body of a request sent through Client.Do
    sess,       \* a session-POST provider upload (FileKeeper, DataVaults)
    send,       \* a provider at one of its sends on the progress channel
    fields,     \* the UploadTab's fields, one statement of a handler a step
    friendly,   \* an error handed to MakeFriendly and what came of it
    release,    \* a call of CheckForUpdates or CompareVersions
    emitted,    \* a provider's run and the UploadProgress values it emitted
    helpers     \* the helper goroutines of a session-POST provider upload

\* the variables of the transport and the upload tab, and those of the
\* providers' helpers
ctlVars == <<do, ctxDone, tab, gen, up, panicked>>

libVars == <<parts, counter, stream, calc, eta>>

extVars == <<fields, friendly, release, emitted, helpers>>

auxVars == <<prefs, shared, body, sess, send, extVars>>

vars ==
    <<do, ctxDone, tab, gen, up, panicked, parts, counter, stream, calc, eta,
      prefs, shared, body, sess, send, fields, friendly, release, emitted,
      helpers>>

(***************************************************************************)
(* Bounds of the model.                                                    *)
(***************************************************************************)
\* ClientConfig.MaxRetries is drawn from 1..MaxRetriesRange
MaxRetriesRange == 3

\* the uploads one UploadTab starts, one after the other
MaxUploads == 2

\* the ticks of a provider's progress ticker during one upload
MaxTicks == 2

\* the progress values one provider run puts on the channel while the
\* tab's fields are followed statement by statement
MaxSnapshots == 1

\* the size of the file of a chunked upload, in blocks
MaxFileSize == 4

\* the chunk size the server announces, in blocks
MaxChunkSize == 2

\* the number of parts the server announces
MaxParts == 3

\* the goroutines that add to a ByteCounter, and the Add(1) calls of each
MaxGoroutines == 3

MaxAdds == 3

\* the calls made on a counting wrapper, and the bytes one call returns
MaxCalls == 3

MaxRead == 2

\* the ticks of the clock a SpeedCalculator lives through, and the byte
\* counts it is given
MaxClock == 6

MaxBytes == 2

\* the bytes remaining and the speed CalculateETA is called with
MaxRemaining == 16500

MaxSpeed == 2

\* the ConfigManagers made over one preferences store
MaxManagers == 2

\* the goroutines that call Default() and LongLived()
MaxCallers == 3

\* the capacity of a progress channel and the updates of an upload
MaxChanCap == 2
MaxUpdates == 3

\* the length of a request body, in blocks
MaxBodyLen == 3

(***************************************************************************)
(* Program constants (half seconds).                                       *)
(***************************************************************************)
DefaultTimeout == 60
DefaultMaxRetries == 3
DefaultMaxElapsed == 600
LongLivedTimeout == 1200
LongLivedMaxRetries == 3
LongLivedMaxElapsed == 3600
InitialInterval == 1
MaxInterval == 60
Multiplier == 2
ProgressChanCap == 10
MaxWindowSize == 5
TimeSecond == 2
DurationBits == 16
UploadResultCap == 1

DefaultConfig ==
    [Timeout |-> DefaultTimeout, MaxRetries |-> DefaultMaxRetries,
     MaxElapsed |-> DefaultMaxElapsed]

LongLivedConfig ==
    [Timeout |-> LongLivedTimeout, MaxRetries |-> LongLivedMaxRetries,
     MaxElapsed |-> LongLivedMaxElapsed]

\* NewClient(config): the two shared profiles and the same timings with any
\* retry count of the range.
ClientConfigs ==
    {DefaultConfig, LongLivedConfig} \cup
    { [Timeout |-> c.Timeout, MaxRetries |-> r, MaxElapsed |-> c.MaxElapsed] :
        c \in {DefaultConfig, LongLivedConfig}, r \in 1..MaxRetriesRange }

(***************************************************************************)
(* Error values.  An error is a record; kind "nil" is Go's nil error.      *)
(***************************************************************************)
NoErr == [kind |-> "nil"]

\* what http.Client.Do returns on a transport failure (a *url.Error around
\* the cause), by the class of its cause
ErrClasses ==
    {"canceled", "deadline", "timeout", "dns", "opErr", "econnrefused",
     "econnreset", "esyscall", "eof", "unexpectedEOF", "other"}

TransportErr(c) == [kind |-> "transport", class |-> c]

\* req.Context().Err() of a cancelled context: context.Canceled itself
CtxCanceled == [kind |-> "context", class |-> "canceled"]

\* fmt.Errorf("retriable status code: %d", r.StatusCode)
RetriableStatusErr(s) == [kind |-> "retriableStatus", code |-> s]

\* fmt.Errorf("request failed after %d retries: %w", c.maxRetries, lastErr)
AfterRetries(r, e) == [kind |-> "afterRetries", retries |-> r, inner |-> e]

Methods == {"GET", "HEAD", "PUT", "DELETE", "OPTIONS", "TRACE", "POST", "PATCH"}

Statuses == {200, 400, 404, 408, 429, 500, 501, 502, 503, 504}

\* the result of one http.Client.Do: a response (its status) or an error
RespOutcome(s) == [resp |-> s, err |-> NoErr]

ErrOutcome(c) == [resp |-> 0, err |-> TransportErr(c)]

NoOutcome == [resp |-> 0, err |-> NoErr]

Outcomes ==
    { RespOutcome(s) : s \in Statuses } \cup { ErrOutcome(c) : c \in ErrClasses }

\* context.Canceled comes out of a request only when its context is cancelled
PossibleOutcomes(ctx, done, all) ==
    { o \in all : (o.err = TransportErr("canceled")) => (ctx \in done) }

(***************************************************************************)
(* errors.Is / errors.As on the error values.                              *)
(***************************************************************************)
RECURSIVE ErrIsCanceled(_)
ErrIsCanceled(e) ==
    CASE e.kind \in {"transport", "context"} -> e.class = "canceled"
      [] e.kind \in {"afterRetries", "wrap"} -> ErrIsCanceled(e.inner)
      [] OTHER -> FALSE

RECURSIVE ErrIsDeadlineExceeded(_)
ErrIsDeadlineExceeded(e) ==
    CASE e.kind \in {"transport", "context"} -> e.class = "deadline"
      [] e.kind \in {"afterRetries", "wrap"} -> ErrIsDeadlineExceeded(e.inner)
      [] OTHER -> FALSE

\* errors.As(err, &netErr) && netErr.Timeout()
ErrIsNetTimeout(e) ==
    e.kind = "transport" /\ e.class \in {"timeout", "deadline"}

ErrAsDNSError(e) == e.kind = "transport" /\ e.class = "dns"

ErrAsOpError(e) == e.kind = "transport" /\ e.class = "opErr"

ErrAsSyscallError(e) ==
    e.kind = "transport" /\ e.class \in {"econnrefused", "econnreset", "esyscall"}

ErrIsEOF(e) == e.kind = "transport" /\ e.class \in {"eof", "unexpectedEOF"}

(***************************************************************************)
(* internal/httpclient/client.go                                           *)
(***************************************************************************)
isIdempotentNoPut(method) ==
    method \in {"GET", "HEAD", "DELETE", "OPTIONS", "TRACE", "POST"}

isIdempotent(method) ==
    method \in {"GET", "HEAD", "PUT", "DELETE", "OPTIONS", "TRACE"}

isTemporaryErrorNoCtxGuard(e) ==
    \/ ErrIsNetTimeout(e)
    \/ ErrAsDNSError(e)
    \/ ErrAsOpError(e)
    \/ (ErrAsSyscallError(e) /\ e.class \in {"econnrefused", "econnreset"})
    \/ ErrIsEOF(e)

isTemporaryErrorAll(e) == e # NoErr

isTemporaryError(e) ==
    IF e = NoErr THEN FALSE
    ELSE IF ErrIsCanceled(e) \/ ErrIsDeadlineExceeded(e) THEN FALSE
    ELSE IF ErrIsNetTimeout(e) THEN TRUE
    ELSE IF ErrAsDNSError(e) THEN TRUE
    ELSE IF ErrAsOpError(e) THEN TRUE
    ELSE IF ErrAsSyscallError(e) /\ e.class \in {"econnrefused", "econnreset"} THEN TRUE
    ELSE IF ErrIsEOF(e) THEN TRUE
    ELSE FALSE

isRetriableStatusCodeNo429(statusCode) ==
    statusCode \in {408, 500, 502, 503, 504, 404}

isRetriableStatusCode(statusCode) ==
    statusCode \in {408, 429, 500, 502, 503, 504}

\* the frame of a Client.Do call
DoIdle ==
    [pc |-> "idle", method |-> "GET", cfg |-> DefaultConfig, ctx |-> 0,
     attempts |-> 0, numTries |-> 0, elapsed |-> 0, interval |-> InitialInterval,
     wait |-> 0, lastErr |-> NoErr, ret |-> NoOutcome,
     lastOutcome |-> NoOutcome, waits |-> 0, timeouts |-> 0, openBodies |-> 0]

Min(a, b) == IF a < b THEN a ELSE b

\* backoff.WithMaxRetries(b, maxRetries).NextBackOff() over the exponential
\* backoff of Do: [stop, numTries, interval, wait]
NextBackOffNoCap(d) ==
    LET next == d.interval
        grown == Min(d.interval * Multiplier, MaxInterval)
    IN  [stop |-> d.elapsed + next > d.cfg.MaxElapsed,
         numTries |-> d.numTries + 1, interval |-> grown, wait |-> next]

NextBackOff(d) ==
    IF d.numTries >= d.cfg.MaxRetries
    THEN [stop |-> TRUE, numTries |-> d.numTries, interval |-> d.interval, wait |-> 0]
    ELSE LET next == d.interval
             grown == Min(d.interval * Multiplier, MaxInterval)
         IN  [stop |-> d.elapsed + next > d.cfg.MaxElapsed,
              numTries |-> d.numTries + 1, interval |-> grown, wait |-> next]

\* the end of Do (lines 138-146): err is what backoff.Retry returned
DoResultFresh(d, err, resp) ==
    IF err # NoErr THEN [resp |-> 0, err |-> AfterRetries(d.cfg.MaxRetries, err)]
    ELSE [resp |-> resp, err |-> NoErr]

DoResult(d, err, resp) ==
    IF err # NoErr
    THEN IF d.lastErr # NoErr
         THEN [resp |-> 0, err |-> AfterRetries(d.cfg.MaxRetries, d.lastErr)]
         ELSE [resp |-> 0, err |-> err]
    ELSE [resp |-> resp, err |-> NoErr]

\* Do is entered: a method outside the idempotent set goes straight to the
\* single c.httpClient.Do(req); otherwise the backoff is set up and
\* backoff.Retry is about to run the operation.
DoEnter(method, cfg, ctx) ==
    IF ~isIdempotent(method)
    THEN [DoIdle EXCEPT !.pc = "single", !.method = method, !.cfg = cfg,
                        !.ctx = ctx, !.attempts = 1]
    ELSE [DoIdle EXCEPT !.pc = "operation", !.method = method, !.cfg = cfg,
                        !.ctx = ctx]

\* the single attempt of a non-idempotent request returns: its outcome is
\* Do's result
DoSingleStep(d, o) ==
    [d EXCEPT !.pc = "returned", !.ret = o, !.lastOutcome = o,
              !.openBodies = IF o.err = NoErr THEN 1 ELSE 0]

\* the operation starts: the context check, then the clone is sent
DoOperationStepNoCheck(d, done) ==
    [d EXCEPT !.pc = "inflight", !.attempts = @ + 1]

DoOperationStep(d, done) ==
    IF d.ctx \in done
    THEN [d EXCEPT !.pc = "returned", !.ret = DoResult(d, CtxCanceled, 0)]
    ELSE [d EXCEPT !.pc = "inflight", !.attempts = @ + 1]

\* what follows an attempt that asked for a retry (err is lastErr by now)
DoRetryStep(d) ==
    LET nb == NextBackOff(d)
    IN  IF nb.stop
        THEN [d EXCEPT !.pc = "returned", !.numTries = nb.numTries,
                       !.interval = nb.interval,
                       !.ret = DoResult(d, d.lastErr, 0)]
        ELSE [d EXCEPT !.pc = "backoff", !.numTries = nb.numTries,
                       !.interval = nb.interval, !.wait = nb.wait]

\* the attempt in flight ends with outcome o after dur: the rest of the
\* operation, and backoff.Retry's handling of what it returned
DoAttemptStepNoResp(d, o, dur) ==
    LET e == [d EXCEPT !.elapsed = @ + dur, !.lastOutcome = o,
                       !.timeouts = IF o.err = TransportErr("timeout")
                                    THEN @ + 1 ELSE @]
    IN  IF o.err # NoErr
        THEN IF isTemporaryError(o.err)
             THEN DoRetryStep([e EXCEPT !.lastErr = o.err])
             ELSE [e EXCEPT !.pc = "returned", !.ret = DoResult(e, o.err, 0)]
        ELSE IF isRetriableStatusCode(o.resp)
             THEN DoRetryStep([e EXCEPT !.lastErr = RetriableStatusErr(o.resp)])
             ELSE [e EXCEPT !.pc = "returned", !.openBodies = @ + 1,
                            !.ret = DoResult(e, NoErr, 0)]

DoAttemptStep(d, o, dur) ==
    LET e == [d EXCEPT !.elapsed = @ + dur, !.lastOutcome = o,
                       !.timeouts = IF o.err = TransportErr("timeout")
                                    THEN @ + 1 ELSE @]
    IN  IF o.err # NoErr
        THEN IF isTemporaryError(o.err)
             THEN DoRetryStep([e EXCEPT !.lastErr = o.err])
             ELSE [e EXCEPT !.pc = "returned", !.ret = DoResult(e, o.err, 0)]
        ELSE IF isRetriableStatusCode(o.resp)
             THEN DoRetryStep([e EXCEPT !.lastErr = RetriableStatusErr(o.resp)])
             ELSE [e EXCEPT !.pc = "returned", !.openBodies = @ + 1,
                            !.ret = DoResult(e, NoErr, o.resp)]

\* backoff.Retry's timer fires
DoWaitStepNoWait(d) ==
    [d EXCEPT !.pc = "operation"]

DoWaitStep(d) ==
    [d EXCEPT !.pc = "operation", !.elapsed = @ + d.wait, !.waits = @ + 1]

(***************************************************************************)
(* internal/ui/errors.go: the errors an upload can end with and their      *)
(* classification.                                                         *)
(***************************************************************************)
\* fmt.Errorf / errors.New of a fixed text; words are the substrings of the
\* lower-cased text that the functions of errors.go look for
MsgErr(id, words) == [kind |-> "msg", id |-> id, words |-> words]

\* what os.Open and (*os.File).Stat return: an *os.PathError around the
\* syscall.Errno of a missing or unreadable file
PathErr == [kind |-> "path"]

\* fmt.Errorf("upload cancelled")
ErrUploadCancelled == MsgErr("upload cancelled", {"cancelled"})

\* the words of http.StatusText(s) that the functions of errors.go look for
StatusWords(s) ==
    CASE s \in {408, 504} -> {"timeout"}
      [] s = 401 -> {"unauthorized"}
      [] s = 403 -> {"forbidden"}
      [] s = 404 -> {"not found"}
      [] s = 413 -> {"too large"}
      [] OTHER -> {}

\* fmt.Errorf("DataVaults server returned error: %s", resp.Status), the
\* status as in "503 Service Unavailable"
ErrServerReturned(s) ==
    MsgErr("DataVaults server returned error",
           {"server returned error", ToString(s)} \cup StatusWords(s))

\* fmt.Errorf("DataVaults server returned error: %s", response.Msg)
ErrServerMsg == MsgErr("DataVaults server returned error", {"server returned error"})

\* fmt.Errorf("DataVaults returned empty response")
ErrEmptyResponse == MsgErr("DataVaults returned empty response", {})

\* what json.Decoder.Decode returns for a malformed body
\* ("invalid character ... looking for beginning of value")
ErrBadJSON == MsgErr("json syntax error", {"invalid"})

\* the error at the end of the Unwrap chain
RECURSIVE ErrCause(_)
ErrCause(e) ==
    IF e.kind \in {"afterRetries", "wrap"} THEN ErrCause(e.inner) ELSE e

\* errors.As(err, &netErr): every error of http.Client.Do is a *url.Error,
\* and the syscall.Errno inside an *os.PathError has Timeout and Temporary
ErrAsNetError(e) == ErrCause(e).kind \in {"transport", "path"}

\* errors.As(err, &pathErr)
ErrAsPathError(e) == ErrCause(e).kind = "path"

\* the words that the functions of errors.go look for in the text a
\* provider puts in front of the error it wraps ("failed to upload file: ")
WrapWords(id) ==
    IF id \in {"failed to upload file", "failed to read file",
               "failed to write file"}
    THEN {"file"}
    ELSE {}

\* strings.Contains(strings.ToLower(err.Error()), w) for the words the
\* functions of errors.go look for
RECURSIVE ErrContains(_, _)
ErrContains(e, w) ==
    CASE e.kind = "msg" -> w \in e.words
      [] e.kind = "context" -> w = "canceled"
      [] e.kind = "transport" ->
           \/ e.class = "canceled" /\ w = "canceled"
           \/ e.class = "econnrefused" /\ w \in {"connection", "connection refused", "dial"}
           \/ e.class \in {"eof", "unexpectedEOF"} /\ w = "eof"
      [] e.kind = "path" -> w \in {"file", "no such file"}
      [] e.kind = "retriableStatus" -> w \in {"status", ToString(e.code)}
      [] e.kind = "afterRetries" -> ErrContains(e.inner, w)
      [] e.kind = "wrap" -> w \in WrapWords(e.id) \/ ErrContains(e.inner, w)
      [] OTHER -> FALSE

ErrContainsAny(e, ws) == \E w \in ws : ErrContains(e, w)

classifyError(e) ==
    IF ErrIsCanceled(e) \/ ErrContainsAny(e, {"cancelled", "canceled"})
    THEN "Cancelled"
    ELSE IF ErrAsNetError(e) THEN "Network"
    ELSE IF ErrAsPathError(e) THEN "File"
    ELSE IF ErrContainsAny(e, {"connection", "timeout", "dial", "network"})
    THEN "Network"
    ELSE IF ErrContainsAny(e, {"unauthorized", "api key", "forbidden",
                               "authentication"})
    THEN "Auth"
    ELSE IF ErrContainsAny(e, {"file", "permission denied", "no such file"})
    THEN "File"
    ELSE IF ErrContains(e, "status")
    THEN IF ErrContainsAny(e, {"401", "403"}) THEN "Auth"
         ELSE IF ErrContainsAny(e, {"400", "413"}) THEN "Validation"
         ELSE "Server"
    ELSE IF ErrContainsAny(e, {"invalid", "too large"}) THEN "Validation"
    ELSE "Unknown"

\* the title of makeNetworkError(err)
makeNetworkError(e) ==
    IF ErrCause(e).kind = "transport" /\ ErrIsNetTimeout(ErrCause(e))
    THEN "Connection Timeout"
    ELSE IF ErrAsDNSError(ErrCause(e)) THEN "DNS Lookup Failed"
    ELSE IF ErrContainsAny(e, {"connection refused", "econnrefused"})
    THEN "Connection Refused"
    ELSE "Network Error"

\* the title of makeAuthError(err)
makeAuthError(e) ==
    IF ErrContainsAny(e, {"401", "unauthorized"}) THEN "Invalid API Key"
    ELSE IF ErrContainsAny(e, {"403", "forbidden"}) THEN "Access Denied"
    ELSE "Authentication Error"

\* the title of makeFileError(err)
makeFileError(e) ==
    IF ErrContainsAny(e, {"no such file", "not found"}) THEN "File Not Found"
    ELSE IF ErrContainsAny(e, {"permission denied", "access is denied"})
    THEN "Permission Denied"
    ELSE IF ErrContains(e, "eof") THEN "File Read Error"
    ELSE "File Error"

\* extractStatusCode(errMsg): the number that follows the first "status "
\* of the text, as in "upload failed with status 500" and in "retriable
\* status code: 503"; 0 when the text has no "status " or "code "
extractStatusCode(e) ==
    LET c == ErrCause(e)
        named == {s \in 100..599 : ToString(s) \in c.words}
    IN  IF c.kind = "retriableStatus" THEN c.code
        ELSE IF c.kind = "msg" /\ "status" \in c.words /\ named # {}
        THEN CHOOSE s \in named : TRUE
        ELSE 0

\* the title of makeServerError(err)
makeServerError(e) ==
    LET statusCode == extractStatusCode(e)
    IN  CASE statusCode = 400 -> "Invalid Request"
          [] statusCode = 404 -> "Service Not Found"
          [] statusCode = 413 -> "File Too Large"
          [] statusCode = 429 -> "Rate Limit Exceeded"
          [] statusCode = 500 -> "Server Error"
          [] statusCode = 502 -> "Bad Gateway"
          [] statusCode = 503 -> "Service Unavailable"
          [] statusCode = 504 -> "Gateway Timeout"
          [] OTHER -> IF statusCode >= 500 THEN "Server Error"
                      ELSE IF ErrContains(e, "server returned error")
                      THEN "Upload Failed"
                      ELSE "Server Error"

\* the title of makeValidationError(err)
makeValidationError(e) ==
    IF ErrContainsAny(e, {"too large", "413"}) THEN "File Too Large"
    ELSE IF ErrContainsAny(e, {"invalid", "400"}) THEN "Invalid File"
    ELSE "Validation Error"

\* the title of MakeFriendly(err)
MakeFriendly(e) ==
    CASE classifyError(e) = "Network" -> makeNetworkError(e)
      [] classifyError(e) = "Auth" -> makeAuthError(e)
      [] classifyError(e) = "File" -> makeFileError(e)
      [] classifyError(e) = "Server" -> makeServerError(e)
      [] classifyError(e) = "Validation" -> makeValidationError(e)
      [] classifyError(e) = "Cancelled" -> "Upload Cancelled"
      [] OTHER -> "Unexpected Error"

(***************************************************************************)
(* internal/ui/upload_tab.go: the data of the upload session controller.   *)
(* A channel or a context is named by the number of the upload that made   *)
(* it; 0 is nil.                                                           *)
(***************************************************************************)
Uploads == 1..MaxUploads

\* *providers.UploadProgress: nil (0), or a progress value, of which only the
\* upload that emitted it is kept
NoProgress == 0

Progress(g) == g

\* uploadCompletion{result, err}
Completion(r, e) == [result |-> r, err |-> e]

NoCompletion == Completion(FALSE, NoErr)

TabInit ==
    [isUploading |-> FALSE, cancelUpload |-> 0, uploadResult |-> 0,
     stopUIUpdate |-> 0, latestProgress |-> NoProgress,
     progressBinding |-> NoProgress, dialogs |-> <<>>]

UpNone ==
    [tr |-> "none", stage |-> "none", call |-> DoIdle, ret |-> NoCompletion,
     fileOpen |-> FALSE,
     stopProgress |-> FALSE, pg |-> "none", ticks |-> 0,
     progressChan |-> <<>>, progressClosed |-> FALSE,
     uploadResult |-> <<>>, stopUIUpdate |-> "none",
     tk |-> "none",
     ui |-> "none", outcome |-> "none",
     sent |-> 0, received |-> 0, publishedAfter |-> FALSE,
     tappedAt |-> "none"]

\* the outcomes of one request the uploads are run against
UploadOutcomes ==
    {RespOutcome(200), RespOutcome(503), ErrOutcome("canceled"), ErrOutcome("other")}

(***************************************************************************)
(* internal/ui/upload_tab.go: the handlers and goroutines of the upload    *)
(* session controller, with DataVaults.Upload as the provider.             *)
(***************************************************************************)
\* what startUpload can find before it launches the transfer
\* (the provider is one of those registered, so GetProvider finds it)
EarlyOutcomes == {"ok", "openErr", "statErr"}

EarlyErr(early) == PathErr

\* the branch onUpload takes
onUploadNoGuard(t, selected) ==
    IF ~selected THEN "return" ELSE "start"

onUpload(t, selected) ==
    IF ~selected THEN "return"
    ELSE IF t.isUploading THEN "cancel"
    ELSE "start"

\* the assignments of finishUpload to the fields of the tab
finishUpload(t) ==
    [t EXCEPT !.stopUIUpdate = 0, !.isUploading = FALSE, !.cancelUpload = 0,
              !.latestProgress = NoProgress]

\* the title of the dialog that finishUpload(err) or showResult(result)
\* opens for a completion
showCompletion(c) ==
    IF c.err # NoErr THEN MakeFriendly(c.err)
    ELSE IF c.result THEN "Upload Results"
    ELSE "none"

\* d.Show() of a dialog about upload g: a modal overlay on the main window
ShowDialog(t, g, title) ==
    IF title = "none" THEN t
    ELSE [t EXCEPT !.dialogs = Append(@, [of |-> g, title |-> title])]

\* startUpload: a failure before the launch ends in finishUpload(err) on the
\* calling thread; otherwise the context, the channels and the three
\* goroutines of the upload are made, the transfer about to call
\* provider.Upload
startUpload(early) ==
    LET g == gen + 1
        t == [tab EXCEPT !.isUploading = TRUE, !.progressBinding = NoProgress]
    IN  /\ gen < MaxUploads
        /\ gen' = g
        /\ IF early # "ok"
           THEN /\ tab' = ShowDialog(finishUpload(t), g,
                                      showCompletion(Completion(FALSE, EarlyErr(early))))
                /\ up' = [h \in Uploads |->
                            IF h = tab.stopUIUpdate
                            THEN [up[h] EXCEPT !.stopUIUpdate = "closed"]
                            ELSE up[h]]
           ELSE /\ tab' = [t EXCEPT !.cancelUpload = g, !.uploadResult = g,
                                    !.stopUIUpdate = g]
                /\ up' = [up EXCEPT ![g] =
                            [UpNone EXCEPT !.tr = "upload", !.stage = "session",
                                           !.call = DoEnter("GET", DefaultConfig, g),
                                           !.fileOpen = TRUE,
                                           !.stopUIUpdate = "open",
                                           !.tk = "range", !.ui = "select"]]
        /\ UNCHANGED <<do, ctxDone, panicked>>

\* onUpload while isUploading: the cancel function, if there is one, is
\* called, and nothing else
cancelRequest ==
    /\ ctxDone' = IF tab.cancelUpload # 0 THEN ctxDone \cup {tab.cancelUpload}
                  ELSE ctxDone
    /\ up' = [up EXCEPT ![gen].tappedAt =
                 IF @ # "none" THEN @
                 ELSE IF up[gen].tr = "upload" THEN "upload"
                 ELSE "late"]
    /\ UNCHANGED <<do, tab, gen, panicked>>

\* the upload button is pressed (an open dialog covers it)
OnUpload ==
    /\ ~panicked
    /\ tab.dialogs = <<>>
    /\ \E selected \in BOOLEAN, early \in EarlyOutcomes :
          LET branch == onUpload(tab, selected)
          IN  CASE branch = "return" -> UNCHANGED vars
                [] branch = "cancel" -> cancelRequest
                [] branch = "start" -> startUpload(early)
    /\ UNCHANGED <<libVars, auxVars>>

(***************************************************************************)
(* DataVaults.Upload, run by the transfer goroutine: the session GET       *)
(* through the default client, then the POST of the file through the       *)
(* long-lived client.                                                      *)
(***************************************************************************)
\* Upload returns (result, err); the deferred close(stopProgress) runs when
\* the channel has been made
UploadReturn(u, result, err, deferred) ==
    [u EXCEPT !.tr = "send", !.stage = "returned", !.call = DoIdle,
              !.ret = Completion(result, err),
              !.stopProgress = @ \/ deferred]

\* how the body of a response decodes; reading it fails with the context's
\* error once the context is cancelled
DecodeOutcomes(cancelled, all) ==
    all \cup (IF cancelled THEN {"canceled"} ELSE {})

\* the session response is decoded; with a session the writer and the
\* progress goroutine are started and the POST is sent (a request sent with
\* a cancelled context fails at once)
SessionDecoded(u, d, g, cancelled) ==
    CASE d = "canceled" -> UploadReturn(u, FALSE, CtxCanceled, FALSE)
      [] d = "badJSON" -> UploadReturn(u, FALSE, ErrBadJSON, FALSE)
      [] d = "status" -> UploadReturn(u, FALSE, ErrServerMsg, FALSE)
      [] OTHER ->
           [u EXCEPT !.stage = "post", !.pg = "select",
                     !.call = IF cancelled
                              THEN DoSingleStep(DoEnter("POST", LongLivedConfig, g),
                                                ErrOutcome("canceled"))
                              ELSE DoEnter("POST", LongLivedConfig, g)]

\* the POST has returned
PostDecoded(u, d) ==
    CASE d = "canceled" -> UploadReturn(u, FALSE, CtxCanceled, TRUE)
      [] d = "badJSON" -> UploadReturn(u, FALSE, ErrBadJSON, TRUE)
      [] d = "empty" -> UploadReturn(u, FALSE, ErrEmptyResponse, TRUE)
      [] OTHER -> UploadReturn(u, TRUE, NoErr, TRUE)

CallOperation ==
    /\ ~panicked
    /\ \E g \in Uploads :
          /\ up[g].tr = "upload"
          /\ up[g].call.pc = "operation"
          /\ up' = [up EXCEPT ![g].call = DoOperationStep(@, ctxDone)]
    /\ UNCHANGED <<do, ctxDone, tab, gen, panicked>>
    /\ UNCHANGED <<libVars, auxVars>>

CallAttempt ==
    /\ ~panicked
    /\ \E g \in Uploads :
          /\ up[g].tr = "upload"
          /\ up[g].call.pc = "inflight"
          /\ \E o \in PossibleOutcomes(g, ctxDone, UploadOutcomes) :
                up' = [up EXCEPT ![g].call = DoAttemptStep(@, o, 0)]
    /\ UNCHANGED <<do, ctxDone, tab, gen, panicked>>
    /\ UNCHANGED <<libVars, auxVars>>

CallWait ==
    /\ ~panicked
    /\ \E g \in Uploads :
          /\ up[g].tr = "upload"
          /\ up[g].call.pc = "backoff"
          /\ up' = [up EXCEPT ![g].call = DoWaitStep(@)]
    /\ UNCHANGED <<do, ctxDone, tab, gen, panicked>>
    /\ UNCHANGED <<libVars, auxVars>>

CallSingle ==
    /\ ~panicked
    /\ \E g \in Uploads :
          /\ up[g].tr = "upload"
          /\ up[g].call.pc = "single"
          /\ \E o \in PossibleOutcomes(g, ctxDone, UploadOutcomes) :
                up' = [up EXCEPT ![g].call = DoSingleStep(@, o)]
    /\ UNCHANGED <<do, ctxDone, tab, gen, panicked>>
    /\ UNCHANGED <<libVars, auxVars>>

SessionReturn ==
    /\ ~panicked
    /\ \E g \in Uploads :
          /\ up[g].tr = "upload"
          /\ up[g].stage = "session"
          /\ up[g].call.pc = "returned"
          /\ IF up[g].call.ret.err # NoErr
             THEN up' = [up EXCEPT ![g] =
                           UploadReturn(@, FALSE, up[g].call.ret.err, FALSE)]
             ELSE \E d \in DecodeOutcomes(g \in ctxDone, {"ok", "badJSON", "status"}) :
                     up' = [up EXCEPT ![g] = SessionDecoded(@, d, g, g \in ctxDone)]
    /\ UNCHANGED <<do, ctxDone, tab, gen, panicked>>
    /\ UNCHANGED <<libVars, auxVars>>

PostReturn ==
    /\ ~panicked
    /\ \E g \in Uploads :
          /\ up[g].tr = "upload"
          /\ up[g].stage = "post"
          /\ up[g].call.pc = "returned"
          /\ LET r == up[g].call.ret
             IN  IF r.err # NoErr
                 THEN up' = [up EXCEPT ![g] =
                               UploadReturn(@, FALSE,
                                   IF ErrIsCanceled(r.err) THEN ErrUploadCancelled
                                   ELSE r.err, TRUE)]
                 ELSE IF r.resp # 200
                 THEN up' = [up EXCEPT ![g] =
                               UploadReturn(@, FALSE, ErrServerReturned(r.resp), TRUE)]
                 ELSE \E d \in DecodeOutcomes(g \in ctxDone, {"ok", "badJSON", "empty"}) :
                         up' = [up EXCEPT ![g] = PostDecoded(@, d)]
    /\ UNCHANGED <<do, ctxDone, tab, gen, panicked>>
    /\ UNCHANGED <<libVars, auxVars>>

\* the cases of the progress goroutine's selects that are ready
ProgressReady(u, g, last) ==
    (IF g \in ctxDone THEN {"ctx"} ELSE {}) \cup
    (IF u.stopProgress THEN {"stop"} ELSE {}) \cup last

\* the progress goroutine at its outer select
ProgressTick ==
    /\ ~panicked
    /\ \E g \in Uploads :
          /\ up[g].pg = "select"
          /\ \E c \in ProgressReady(up[g], g,
                        IF up[g].ticks < MaxTicks THEN {"tick"} ELSE {}) :
                up' = [up EXCEPT ![g] =
                         IF c = "tick"
                         THEN [@ EXCEPT !.pg = "send", !.ticks = @ + 1]
                         ELSE [@ EXCEPT !.pg = "done"]]
    /\ UNCHANGED <<do, ctxDone, tab, gen, panicked>>
    /\ UNCHANGED <<libVars, auxVars>>

\* the progress goroutine at its inner select: a send on the closed channel
\* panics
ProgressSend ==
    /\ ~panicked
    /\ \E g \in Uploads :
          /\ up[g].pg = "send"
          /\ \E c \in ProgressReady(up[g], g,
                        IF \/ up[g].progressClosed
                           \/ Len(up[g].progressChan) < ProgressChanCap
                        THEN {"send"} ELSE {}) :
                /\ up' = [up EXCEPT ![g] =
                            IF c # "send" THEN [@ EXCEPT !.pg = "done"]
                            ELSE IF up[g].progressClosed THEN [@ EXCEPT !.pg = "panic"]
                            ELSE [@ EXCEPT !.pg = "select",
                                           !.progressChan = Append(@, Progress(g))]]
                /\ panicked' = (c = "send" /\ up[g].progressClosed)
    /\ UNCHANGED <<do, ctxDone, tab, gen>>
    /\ UNCHANGED <<libVars, auxVars>>

(***************************************************************************)
(* The transfer goroutine after provider.Upload, trackProgress and         *)
(* updateUIFromProgress.                                                   *)
(***************************************************************************)
\* t.uploadResult <- &uploadCompletion{result, err}
TransferSend ==
    /\ ~panicked
    /\ \E g \in Uploads :
          /\ up[g].tr = "send"
          /\ tab.uploadResult # 0
          /\ Len(up[tab.uploadResult].uploadResult) < UploadResultCap
          /\ up' = [up EXCEPT ![tab.uploadResult].uploadResult = Append(@, up[g].ret),
                              ![g].tr = "defers",
                              ![g].ret = NoCompletion,
                              ![g].sent = @ + 1]
    /\ UNCHANGED <<do, ctxDone, tab, gen, panicked>>
    /\ UNCHANGED <<libVars, auxVars>>

\* defer close(progressChan), then defer file.Close() (which no other
\* goroutine of the controller observes)
TransferDefers ==
    /\ ~panicked
    /\ \E g \in Uploads :
          /\ up[g].tr = "defers"
          /\ up' = [up EXCEPT ![g].tr = "done", ![g].progressClosed = TRUE,
                              ![g].fileOpen = FALSE]
    /\ UNCHANGED <<do, ctxDone, tab, gen, panicked>>
    /\ UNCHANGED <<libVars, auxVars>>

\* trackProgress: the next value of the range, or its end
TrackReceive ==
    /\ ~panicked
    /\ \E g \in Uploads :
          /\ up[g].tk = "range"
          /\ Len(up[g].progressChan) > 0 \/ up[g].progressClosed
          /\ up' = [up EXCEPT ![g] =
                      IF Len(up[g].progressChan) > 0
                      THEN [@ EXCEPT !.tk = "store", !.progressChan = Tail(@)]
                      ELSE [@ EXCEPT !.tk = "done"]]
    /\ UNCHANGED <<do, ctxDone, tab, gen, panicked>>
    /\ UNCHANGED <<libVars, auxVars>>

\* trackProgress: t.latestProgress = &progressCopy, under the lock
TrackStore ==
    /\ ~panicked
    /\ \E g \in Uploads :
          /\ up[g].tk = "store"
          /\ tab' = [tab EXCEPT !.latestProgress = Progress(g)]
          /\ up' = [up EXCEPT ![g].tk = "range"]
    /\ UNCHANGED <<do, ctxDone, gen, panicked>>
    /\ UNCHANGED <<libVars, auxVars>>

\* the cases of updateUIFromProgress's select that are ready
UIReady ==
    {"tick"} \cup
    (IF tab.stopUIUpdate # 0 /\ up[tab.stopUIUpdate].stopUIUpdate = "closed"
     THEN {"stop"} ELSE {}) \cup
    (IF tab.uploadResult # 0 /\ Len(up[tab.uploadResult].uploadResult) > 0
     THEN {"result"} ELSE {})

\* updateUIFromProgress receives the completion and enters finishUpload: the
\* stop channel is closed and forgotten, isUploading is reset.  Of the
\* completion the goroutine holds, what it will show is kept.
UIReceive(g) ==
    LET ch == tab.uploadResult
        st == tab.stopUIUpdate
    IN  /\ tab' = [tab EXCEPT !.stopUIUpdate = 0, !.isUploading = FALSE]
        /\ up' = [h \in Uploads |->
                    LET a == IF h = ch THEN [up[h] EXCEPT !.uploadResult = Tail(@)]
                             ELSE up[h]
                        b == IF h = st THEN [a EXCEPT !.stopUIUpdate = "closed"]
                             ELSE a
                    IN  IF h = g
                        THEN [b EXCEPT !.ui = "cancelUpload",
                                       !.outcome = showCompletion(Head(up[ch].uploadResult)),
                                       !.received = @ + 1]
                        ELSE b]

\* updateUIFromProgress on a tick: the latest progress, if any, goes to the
\* bindings
UIPublish(g) ==
    IF tab.latestProgress = NoProgress
    THEN UNCHANGED <<tab, up>>
    ELSE /\ tab' = [tab EXCEPT !.progressBinding = tab.latestProgress]
         /\ up' = [up EXCEPT ![g].publishedAfter = @ \/ up[g].received > 0]

UISelect ==
    /\ ~panicked
    /\ \E g \in Uploads :
          /\ up[g].ui = "select"
          /\ \E c \in UIReady :
                CASE c = "stop" -> /\ up' = [up EXCEPT ![g].ui = "done"]
                                   /\ UNCHANGED tab
                  [] c = "result" -> UIReceive(g)
                  [] c = "tick" -> UIPublish(g)
    /\ UNCHANGED <<do, ctxDone, gen, panicked>>
    /\ UNCHANGED <<libVars, auxVars>>

\* finishUpload: t.cancelUpload = nil
UICancelUpload ==
    /\ ~panicked
    /\ \E g \in Uploads :
          /\ up[g].ui = "cancelUpload"
          /\ tab' = [tab EXCEPT !.cancelUpload = 0]
          /\ up' = [up EXCEPT ![g].ui = "latestProgress"]
    /\ UNCHANGED <<do, ctxDone, gen, panicked>>
    /\ UNCHANGED <<libVars, auxVars>>

\* the return of updateUIFromProgress after finishUpload and showResult
updateUIFromProgressLoop(u) == [u EXCEPT !.ui = "select", !.outcome = "none"]

updateUIFromProgressReturn(u) == [u EXCEPT !.ui = "done", !.outcome = "none"]

\* finishUpload: t.latestProgress = nil, under the lock; then the dialog of
\* the error, or showResult's
UILatestProgress ==
    /\ ~panicked
    /\ \E g \in Uploads :
          /\ up[g].ui = "latestProgress"
          /\ tab' = ShowDialog([tab EXCEPT !.latestProgress = NoProgress], g,
                                up[g].outcome)
          /\ up' = [up EXCEPT ![g] = updateUIFromProgressReturn(@)]
    /\ UNCHANGED <<do, ctxDone, gen, panicked>>
    /\ UNCHANGED <<libVars, auxVars>>

\* the user closes the dialog on top
DismissDialog ==
    /\ ~panicked
    /\ tab.dialogs # <<>>
    /\ LET top == tab.dialogs[Len(tab.dialogs)]
       IN  /\ tab' = [tab EXCEPT !.dialogs = SubSeq(@, 1, Len(@) - 1)]
           /\ up' = [up EXCEPT ![top.of].tappedAt = "none"]
    /\ UNCHANGED <<do, ctxDone, gen, panicked>>
    /\ UNCHANGED <<libVars, auxVars>>

(***************************************************************************)
(* The chunked providers: RootzProvider.Upload with uploadSmallFile and    *)
(* uploadLargeFile (unnamed/part_003) and AkiraBoxProvider.Upload          *)
(* (internal/providers/akirabox.go).  Sizes are counted in blocks of       *)
(* 2 MiB.  The request in progress is the frame do; the upload's context   *)
(* is context 1.                                                           *)
(***************************************************************************)
\* rootzMultipartThreshold, 4 MiB
RootzMultipartThreshold == 2

ChunkedProviders == {"Rootz", "AkiraBox"}

PartsCtx == 1

\* fmt.Errorf("<text>: %w", err)
Wrap(id, e) == [kind |-> "wrap", id |-> id, inner |-> e]

\* fmt.Errorf("<text> with status %d", resp.StatusCode)
ErrWithStatus(id, s) == MsgErr(id, {"status", ToString(s)})

\* a request through a plain &http.Client{}: one attempt, whatever the method
PlainRequest(method, ctx) ==
    [DoIdle EXCEPT !.pc = "single", !.method = method, !.ctx = ctx, !.attempts = 1]

\* how each provider sends its requests: Rootz through httpclient (Default
\* for the JSON calls, LongLived for the parts), AkiraBox through plain
\* clients
PartsRequest(provider, method, cfg) ==
    IF provider = "Rootz" THEN DoEnter(method, cfg, PartsCtx)
    ELSE PlainRequest(method, PartsCtx)

\* the branch of RootzProvider.Upload
RootzPathAtMost(fileSize) ==
    IF fileSize <= RootzMultipartThreshold THEN "small" ELSE "large"

RootzPath(fileSize) ==
    IF fileSize < RootzMultipartThreshold THEN "small" ELSE "large"

\* what the body of a 200 answer can be: the JSON expected, text that is not
\* JSON, or JSON with a field missing or of another type
Shapes == {"ok", "syntax", "malformed"}

\* calls is the list of the requests the upload has made, each with late,
\* whether the context was already cancelled when it was made; late is that
\* of the request in progress; urls the parts the batch of presigned URLs
\* has a URL for
PartsNone ==
    [pc |-> "idle", provider |-> "Rootz", fileSize |-> 0, chunkSize |-> 0,
     totalParts |-> 0, partNum |-> 0, issued |-> <<>>, uploadedParts |-> <<>>,
     submitted |-> <<>>, finalized |-> FALSE, ret |-> NoCompletion,
     cause |-> "none", calls |-> <<>>, late |-> FALSE, urls |-> {}]

\* the part's byte span: start and partSize of uploadParts
PartStartFromChunk(partNum, chunkSize) == partNum * chunkSize

PartStart(partNum, chunkSize) == (partNum - 1) * chunkSize

PartSizeNoClamp(partNum, chunkSize, fileSize) == chunkSize

PartSize(partNum, chunkSize, fileSize) ==
    IF PartStart(partNum, chunkSize) + chunkSize > fileSize
    THEN fileSize - PartStart(partNum, chunkSize)
    ELSE chunkSize

\* Upload returns (nil, err)
PartsFail(p, err) == [p EXCEPT !.pc = "returned", !.ret = Completion(FALSE, err)]

\* uploadParts returns (nil, err) for the current part and Upload wraps it
PartFailedGoOn(p, err) == [p EXCEPT !.pc = "check", !.partNum = @ + 1]

PartFailed(p, err) == PartsFail(p, Wrap("upload parts failed", err))

\* a type assertion x.(T) without the ok form on a value that is not a T:
\* the goroutine panics, and nothing recovers
PartsPanic(p) == [p EXCEPT !.pc = "panic"]

\* a request of the given kind is made for the given part (0: no part)
PartsIssue(p, kind, part, done) ==
    [p EXCEPT !.calls = Append(@, [kind |-> kind, part |-> part,
                                   late |-> PartsCtx \in done]),
              !.late = PartsCtx \in done]

\* the texts the providers wrap a failure of each stage in
StartText(provider) ==
    IF provider = "Rootz" THEN "init failed" ELSE "start upload failed"

StartStatusText(provider) ==
    IF provider = "Rootz" THEN "request failed" ELSE "start upload failed"

CompleteText(provider) ==
    IF provider = "Rootz" THEN "complete failed" ELSE "complete upload failed"

CompleteStatusText(provider) ==
    IF provider = "Rootz" THEN "request failed" ELSE "complete upload failed"

\* Upload is called with a file of fileSize blocks.  Rootz reads a file
\* under the threshold whole and sends it in one POST; otherwise the init
\* request is sent
PartsUpload ==
    /\ parts.pc = "idle"
    /\ do.pc = "idle"
    /\ \E provider \in ChunkedProviders, fileSize \in 0..MaxFileSize,
          readOK \in BOOLEAN :
          LET p == [PartsNone EXCEPT !.provider = provider, !.fileSize = fileSize]
          IN  IF provider = "Rootz" /\ RootzPath(fileSize) = "small"
              THEN IF readOK
                   THEN /\ parts' = PartsIssue([p EXCEPT !.pc = "small"], "small",
                                               0, ctxDone)
                        /\ do' = DoEnter("POST", DefaultConfig, PartsCtx)
                   ELSE /\ parts' = PartsFail(p, Wrap("failed to read file",
                                                      MsgErr("read error", {})))
                        /\ do' = DoIdle
              ELSE /\ readOK
                   /\ parts' = PartsIssue([p EXCEPT !.pc = "start"], "start", 0,
                                          ctxDone)
                   /\ do' = PartsRequest(provider, "POST", DefaultConfig)
    /\ UNCHANGED <<ctxDone, tab, gen, up, panicked, counter, stream, calc, eta, auxVars>>

\* the request of the current stage failed because the context was cancelled
PartsCause(p, cancelled) == IF cancelled THEN [p EXCEPT !.cause = "canceled"] ELSE p

\* the outcomes of a provider's request: those of an upload, and a
\* connection reset, which isTemporaryError takes for transient
PartOutcomes == UploadOutcomes \cup {ErrOutcome("econnreset")}

\* what a request can come to: net/http sends nothing for a request whose
\* context is already cancelled and returns the context's error
PartsOutcomes(p, ctx, done) ==
    IF p.late THEN {ErrOutcome("canceled")}
    ELSE PossibleOutcomes(ctx, done, PartOutcomes)

PartsInFlight == parts.pc \notin {"idle", "returned", "panic"}

PartsOperation ==
    /\ PartsInFlight
    /\ do.pc = "operation"
    /\ do' = DoOperationStep(do, ctxDone)
    /\ parts' = PartsCause(parts, do.ctx \in ctxDone)
    /\ UNCHANGED <<ctxDone, tab, gen, up, panicked, counter, stream, calc, eta, auxVars>>

PartsAttempt ==
    /\ PartsInFlight
    /\ do.pc = "inflight"
    /\ \E o \in PossibleOutcomes(do.ctx, ctxDone, PartOutcomes) :
          /\ do' = DoAttemptStep(do, o, 0)
          /\ parts' = PartsCause(parts, o.err = TransportErr("canceled"))
    /\ UNCHANGED <<ctxDone, tab, gen, up, panicked, counter, stream, calc, eta, auxVars>>

PartsWait ==
    /\ PartsInFlight
    /\ do.pc = "backoff"
    /\ do' = DoWaitStep(do)
    /\ UNCHANGED <<ctxDone, tab, gen, up, panicked, parts, counter, stream, calc, eta, auxVars>>

PartsSingle ==
    /\ PartsInFlight
    /\ do.pc = "single"
    /\ \E o \in PartsOutcomes(parts, do.ctx, ctxDone) :
          /\ do' = DoSingleStep(do, o)
          /\ parts' = PartsCause(parts, o.err = TransportErr("canceled"))
    /\ UNCHANGED <<ctxDone, tab, gen, up, panicked, counter, stream, calc, eta, auxVars>>

\* Rootz: the POST of uploadSmallFile has returned; after a success the
\* final progress update is sent and the result returned
PartsSmallReturn ==
    /\ parts.pc = "small"
    /\ do.pc = "returned"
    /\ do' = DoIdle
    /\ IF do.ret.err # NoErr
       THEN parts' = PartsFail(parts, do.ret.err)
       ELSE IF do.ret.resp # 200
       THEN parts' = PartsFail(parts, ErrWithStatus("upload failed", do.ret.resp))
       ELSE \E shape \in Shapes, success \in BOOLEAN :
               parts' =
                  IF shape = "syntax"
                  THEN PartsFail(parts, Wrap("failed to decode response", ErrBadJSON))
                  ELSE IF shape = "malformed" \/ ~success
                  THEN PartsFail(parts, MsgErr("upload failed", {}))
                  ELSE [parts EXCEPT !.pc = "returned",
                                     !.ret = Completion(TRUE, NoErr)]
    /\ UNCHANGED <<ctxDone, tab, gen, up, panicked, counter, stream, calc, eta, auxVars>>

\* the init request has returned: the server's chunkSize and totalParts are
\* taken as they come.  Rootz asserts the types of the four fields it reads
\* and then asks for the URLs of the parts; AkiraBox decodes into a struct
PartsStartReturn ==
    /\ parts.pc = "start"
    /\ do.pc = "returned"
    /\ \E shape \in Shapes :
       IF do.ret.err # NoErr
       THEN /\ parts' = PartsFail(parts, Wrap(StartText(parts.provider), do.ret.err))
            /\ do' = DoIdle
       ELSE IF do.ret.resp # 200
       THEN /\ parts' = PartsFail(parts,
                           Wrap(StartText(parts.provider),
                                ErrWithStatus(StartStatusText(parts.provider),
                                              do.ret.resp)))
            /\ do' = DoIdle
       ELSE IF shape = "syntax" \/ (shape = "malformed" /\ parts.provider = "AkiraBox")
       THEN /\ parts' = PartsFail(parts, Wrap(StartText(parts.provider), ErrBadJSON))
            /\ do' = DoIdle
       ELSE IF shape = "malformed"
       THEN /\ parts' = PartsPanic(parts)
            /\ do' = DoIdle
       ELSE \E chunkSize \in 1..MaxChunkSize, totalParts \in 0..MaxParts :
               LET p == [parts EXCEPT !.chunkSize = chunkSize,
                                      !.totalParts = totalParts,
                                      !.uploadedParts = [i \in 1..totalParts |-> 0],
                                      !.partNum = 1, !.cause = "none"]
               IN  IF parts.provider = "Rootz"
                   THEN /\ parts' = PartsIssue([p EXCEPT !.pc = "urls"], "urls", 0,
                                               ctxDone)
                        /\ do' = PartsRequest("Rootz", "POST", DefaultConfig)
                   ELSE /\ parts' = [p EXCEPT !.pc = "check"]
                        /\ do' = DoIdle
    /\ UNCHANGED <<ctxDone, tab, gen, up, panicked, counter, stream, calc, eta, auxVars>>

\* the batches of URLs a server can answer with: one for every part, or
\* one part's missing
UrlBatches(totalParts) ==
    {1..totalParts} \cup {(1..totalParts) \ {k} : k \in 1..totalParts}

\* Rootz: the batch-urls request has returned; the types of success and of
\* urls are asserted
PartsUrlsReturn ==
    /\ parts.pc = "urls"
    /\ do.pc = "returned"
    /\ do' = DoIdle
    /\ IF do.ret.err # NoErr
       THEN parts' = PartsFail(parts, Wrap("failed to get URLs", do.ret.err))
       ELSE IF do.ret.resp # 200
       THEN parts' = PartsFail(parts, Wrap("failed to get URLs",
                                           ErrWithStatus("request failed", do.ret.resp)))
       ELSE \E shape \in Shapes, success \in BOOLEAN,
               urls \in UrlBatches(parts.totalParts) :
               parts' = IF shape = "syntax"
                        THEN PartsFail(parts, Wrap("failed to get URLs", ErrBadJSON))
                        ELSE IF shape = "malformed"
                        THEN PartsPanic(parts)
                        ELSE IF success
                        THEN [parts EXCEPT !.pc = "check", !.cause = "none",
                                           !.urls = urls]
                        ELSE PartsFail(parts, MsgErr("failed to get URLs", {}))
    /\ UNCHANGED <<ctxDone, tab, gen, up, panicked, counter, stream, calc, eta, auxVars>>

\* select { case <-ctx.Done(): ... default: }
CtxNeverDone(done) == FALSE

CtxDone(done) == PartsCtx \in done

\* the top of the loop over the parts: after the last part the finalize
\* request is sent with the list of parts; a cancelled context ends the
\* upload; otherwise the loop's body is entered
PartsCheck ==
    /\ parts.pc = "check"
    /\ IF parts.partNum > parts.totalParts
       THEN /\ parts' = PartsIssue([parts EXCEPT !.pc = "complete",
                                                 !.finalized = TRUE,
                                                 !.submitted = parts.uploadedParts],
                                   "complete", 0, ctxDone)
            /\ do' = PartsRequest(parts.provider, "POST", DefaultConfig)
       ELSE IF CtxDone(ctxDone)
       THEN /\ parts' = PartFailed(parts, ErrUploadCancelled)
            /\ do' = DoIdle
       ELSE /\ parts' = [parts EXCEPT !.pc = "part"]
            /\ do' = DoIdle
    /\ UNCHANGED <<ctxDone, tab, gen, up, panicked, counter, stream, calc, eta, auxVars>>

\* the part as uploadParts cuts it
PartSpan(p) ==
    [num |-> p.partNum, start |-> PartStart(p.partNum, p.chunkSize),
     size |-> PartSize(p.partNum, p.chunkSize, p.fileSize)]

\* the body of the loop: the file is positioned at the part's start; Rootz
\* takes the part's URL out of the batch, asserting that it is a string, and
\* sends the part; AkiraBox asks for the part's URL
PartsPart ==
    /\ parts.pc = "part"
    /\ \E seekOK \in BOOLEAN :
       IF ~seekOK
       THEN /\ parts' = PartFailed(parts,
                           Wrap("failed to seek to part", MsgErr("seek error", {})))
            /\ do' = DoIdle
       ELSE IF parts.provider = "AkiraBox"
       THEN /\ parts' = PartsIssue([parts EXCEPT !.pc = "chunkURL"], "chunkURL",
                                   parts.partNum, ctxDone)
            /\ do' = PartsRequest("AkiraBox", "GET", DefaultConfig)
       ELSE IF parts.partNum \notin parts.urls
       THEN /\ parts' = PartsPanic(parts)
            /\ do' = DoIdle
       ELSE /\ parts' = PartsIssue([parts EXCEPT !.pc = "put",
                                                 !.issued = Append(@, PartSpan(parts))],
                                   "put", parts.partNum, ctxDone)
            /\ do' = PartsRequest("Rootz", "PUT", LongLivedConfig)
    /\ UNCHANGED <<ctxDone, tab, gen, up, panicked, counter, stream, calc, eta, auxVars>>

\* AkiraBox: getChunkURL has returned; the part is sent
PartsChunkURLReturn ==
    /\ parts.pc = "chunkURL"
    /\ do.pc = "returned"
    /\ \E shape \in Shapes :
       IF do.ret.err # NoErr
       THEN /\ parts' = PartFailed(parts, Wrap("failed to get URL for part", do.ret.err))
            /\ do' = DoIdle
       ELSE IF do.ret.resp # 200
       THEN /\ parts' = PartFailed(parts,
                           Wrap("failed to get URL for part",
                                ErrWithStatus("get chunk URL failed", do.ret.resp)))
            /\ do' = DoIdle
       ELSE IF shape # "ok"
       THEN /\ parts' = PartFailed(parts, Wrap("failed to get URL for part", ErrBadJSON))
            /\ do' = DoIdle
       ELSE /\ parts' = PartsIssue([parts EXCEPT !.pc = "put", !.cause = "none",
                                                 !.issued = Append(@, PartSpan(parts))],
                                   "put", parts.partNum, ctxDone)
            /\ do' = PartsRequest("AkiraBox", "PUT", LongLivedConfig)
    /\ UNCHANGED <<ctxDone, tab, gen, up, panicked, counter, stream, calc, eta, auxVars>>

\* uploadPartWithProgress has returned: the part is recorded in its slot
PartsPutReturn ==
    /\ parts.pc = "put"
    /\ do.pc = "returned"
    /\ do' = DoIdle
    /\ IF do.ret.err # NoErr
       THEN parts' = PartFailed(parts, Wrap("failed to upload part", do.ret.err))
       ELSE IF do.ret.resp # 200
       THEN parts' = PartFailed(parts,
                        Wrap("failed to upload part",
                             ErrWithStatus("upload failed", do.ret.resp)))
       ELSE parts' = [parts EXCEPT !.pc = "check", !.cause = "none",
                                   !.uploadedParts[parts.partNum] = parts.partNum,
                                   !.partNum = @ + 1]
    /\ UNCHANGED <<ctxDone, tab, gen, up, panicked, counter, stream, calc, eta, auxVars>>

\* the finalize request has returned.  Rootz asserts the types of success,
\* file and shortId; AkiraBox looks for download_link with the ok form
PartsCompleteReturn ==
    /\ parts.pc = "complete"
    /\ do.pc = "returned"
    /\ do' = DoIdle
    /\ IF do.ret.err # NoErr
       THEN parts' = PartsFail(parts, Wrap(CompleteText(parts.provider), do.ret.err))
       ELSE IF do.ret.resp # 200
       THEN parts' = PartsFail(parts,
                        Wrap(CompleteText(parts.provider),
                             ErrWithStatus(CompleteStatusText(parts.provider),
                                           do.ret.resp)))
       ELSE \E shape \in Shapes, answer \in {"ok", "failed"} :
               parts' = IF shape = "syntax"
                        THEN PartsFail(parts, Wrap(CompleteText(parts.provider),
                                                   ErrBadJSON))
                        ELSE IF shape = "malformed" /\ parts.provider = "Rootz"
                        THEN PartsPanic(parts)
                        ELSE IF shape = "ok" /\ answer = "ok"
                        THEN [parts EXCEPT !.pc = "returned",
                                           !.ret = Completion(TRUE, NoErr)]
                        ELSE PartsFail(parts,
                                 IF parts.provider = "Rootz"
                                 THEN MsgErr("complete failed", {})
                                 ELSE Wrap("complete upload failed",
                                           MsgErr("download_link not found in response",
                                                  {"not found"})))
    /\ UNCHANGED <<ctxDone, tab, gen, up, panicked, counter, stream, calc, eta, auxVars>>

\* the caller cancels the upload's context
PartsCancel ==
    /\ PartsInFlight
    /\ PartsCtx \notin ctxDone
    /\ ctxDone' = ctxDone \cup {PartsCtx}
    /\ UNCHANGED <<do, tab, gen, up, panicked, parts, counter, stream, calc, eta, auxVars>>

(***************************************************************************)
(* internal/providers/helpers.go: ByteCounter, an atomic.Int64, with the   *)
(* goroutines that add to it and a reader.                                 *)
(***************************************************************************)
Goroutines == 1..MaxGoroutines

\* atomic.Int64.Add(x): one indivisible step
AtomicAddStale(n, x) == IF n > 0 THEN n ELSE n + x

AtomicAdd(n, x) == n + x

\* a ByteCounter{} with no goroutine started: left[k] is the number of Add(1)
\* calls goroutine k has still to make, issued the number made so far, seen
\* what the reader's last N() returned
CounterNone ==
    [pc |-> "idle", n |-> 0, left |-> [k \in Goroutines |-> 0], total |-> 0,
     issued |-> 0, seen |-> 0]

RECURSIVE SumOver(_, _)
SumOver(f, S) ==
    IF S = {} THEN 0
    ELSE LET k == CHOOSE x \in S : TRUE IN f[k] + SumOver(f, S \ {k})

\* the goroutines are started, each with its number of adds
CounterGo ==
    /\ counter.pc = "idle"
    /\ \E left \in [Goroutines -> 0..MaxAdds] :
          counter' = [counter EXCEPT !.pc = "running", !.left = left,
                                     !.total = SumOver(left, Goroutines)]
    /\ UNCHANGED <<ctlVars, parts, stream, calc, eta, auxVars>>

\* goroutine k calls Add(1)
CounterAdd ==
    /\ counter.pc = "running"
    /\ \E k \in Goroutines :
          /\ counter.left[k] > 0
          /\ counter' = [counter EXCEPT !.n = AtomicAdd(@, 1),
                                        !.left[k] = @ - 1,
                                        !.issued = @ + 1]
    /\ UNCHANGED <<ctlVars, parts, stream, calc, eta, auxVars>>

\* a reader calls N()
CounterN ==
    /\ counter.pc = "running"
    /\ counter' = [counter EXCEPT !.seen = counter.n]
    /\ UNCHANGED <<ctlVars, parts, stream, calc, eta, auxVars>>

(***************************************************************************)
(* internal/providers/helpers.go and unnamed/part_003: the counting        *)
(* wrappers CountingReader, countingWriter and progressReader around a     *)
(* stream.  A call of the underlying Read or Write returns (n, err).       *)
(***************************************************************************)
Wrappers == {"CountingReader", "countingWriter", "progressReader"}

StreamErrs == {"nil", "EOF", "error"}

\* the wrapper at rest: under is what the underlying stream returned call by
\* call, returned what the wrapper returned, calls the arguments of the
\* callback
StreamNone ==
    [pc |-> "idle", wrapper |-> "CountingReader", cb |-> FALSE,
     under |-> <<>>, returned |-> <<>>, calls |-> <<>>]

\* Read / Write of a wrapper over a call of the underlying stream that
\* returned r: what it returns, and the arguments it calls the callback with
WrapperCallAlways(r, cb) ==
    [ret |-> r, calls |-> IF cb THEN <<r.n>> ELSE <<>>]

WrapperCall(r, cb) ==
    [ret |-> r, calls |-> IF r.n > 0 /\ cb THEN <<r.n>> ELSE <<>>]

\* a wrapper is built, with a callback or with nil
StreamNew ==
    /\ stream.pc = "idle"
    /\ \E w \in Wrappers, cb \in BOOLEAN :
          stream' = [StreamNone EXCEPT !.pc = "open", !.wrapper = w, !.cb = cb]
    /\ UNCHANGED <<ctlVars, parts, counter, calc, eta, auxVars>>

\* Read (Write for countingWriter) is called on the wrapper
StreamCall ==
    /\ stream.pc = "open"
    /\ Len(stream.under) < MaxCalls
    /\ \E n \in 0..MaxRead, err \in StreamErrs :
          LET r == [n |-> n, err |-> err]
              c == WrapperCall(r, stream.cb)
          IN  stream' = [stream EXCEPT !.under = Append(@, r),
                                       !.returned = Append(@, c.ret),
                                       !.calls = @ \o c.calls]
    /\ UNCHANGED <<ctlVars, parts, counter, calc, eta, auxVars>>

(***************************************************************************)
(* SpeedCalculator (internal/providers/helpers_test.go).  Time is the      *)
(* clock now, in ticks; a rate is kept in units of 1/RateScale bytes per   *)
(* tick, so that every quotient of a byte count by a duration is exact.    *)
(* An average is kept as the pair of the sum and the number of samples.    *)
(***************************************************************************)
RECURSIVE Gcd(_, _)
Gcd(a, b) == IF b = 0 THEN a ELSE Gcd(b, a % b)

RECURSIVE LcmUpTo(_)
LcmUpTo(n) == IF n <= 1 THEN 1 ELSE (LcmUpTo(n - 1) * n) \div Gcd(LcmUpTo(n - 1), n)

RateScale == LcmUpTo(MaxClock)

RECURSIVE SumSeq(_)
SumSeq(s) == IF s = <<>> THEN 0 ELSE Head(s) + SumSeq(Tail(s))

\* a float64 rate that is the mean of len samples summing to sum
Avg(sum, len) == [sum |-> sum, len |-> len]

\* the float64 0
AvgOne == Avg(1, 1)

AvgZero == Avg(0, 1)

NewSpeedCalculator(now) ==
    [startTime |-> now, lastUpdateTime |-> now, lastBytesUploaded |-> 0,
     smoothingWindow |-> <<>>, maxWindowSize |-> MaxWindowSize]

\* Update: the calculator after the call and what the call returns
UpdateNoEvict(s, bytesUploaded, now) ==
    LET duration == now - s.lastUpdateTime
    IN  IF duration > 0
        THEN LET bytesDelta == bytesUploaded - s.lastBytesUploaded
                 currentSpeed == (bytesDelta * RateScale) \div duration
                 w == Append(s.smoothingWindow, currentSpeed)
             IN  [s |-> [s EXCEPT !.smoothingWindow = w,
                                   !.lastUpdateTime = now,
                                   !.lastBytesUploaded = bytesUploaded],
                  ret |-> Avg(SumSeq(w), Len(w))]
        ELSE [s |-> s, ret |-> AvgZero]

Update(s, bytesUploaded, now) ==
    LET duration == now - s.lastUpdateTime
    IN  IF duration > 0
        THEN LET bytesDelta == bytesUploaded - s.lastBytesUploaded
                 currentSpeed == (bytesDelta * RateScale) \div duration
                 appended == Append(s.smoothingWindow, currentSpeed)
                 w == IF Len(appended) > s.maxWindowSize THEN Tail(appended)
                      ELSE appended
             IN  [s |-> [s EXCEPT !.smoothingWindow = w,
                                   !.lastUpdateTime = now,
                                   !.lastBytesUploaded = bytesUploaded],
                  ret |-> Avg(SumSeq(w), Len(w))]
        ELSE [s |-> s, ret |-> AvgZero]

ResetKeepBytes(s, now) ==
    [s EXCEPT !.startTime = now, !.lastUpdateTime = now, !.smoothingWindow = <<>>]

Reset(s, now) ==
    [s EXCEPT !.startTime = now, !.lastUpdateTime = now,
              !.lastBytesUploaded = 0, !.smoothingWindow = <<>>]

\* no calculator yet.  Beside the calculator s: fresh is a calculator
\* constructed at the moment of the last Reset and given the same calls
\* since; op, arg, ret the last call, its argument and what it returned;
\* updates the Update calls since construction or Reset (2 for more);
\* samples the rates recorded since; cleared whether the last Reset found
\* rates and a byte count to clear
CalcNone ==
    [pc |-> "idle", now |-> 0, s |-> NewSpeedCalculator(0),
     hasFresh |-> FALSE, fresh |-> NewSpeedCalculator(0), cleared |-> FALSE,
     op |-> "none", arg |-> 0, ret |-> AvgZero, freshRet |-> AvgZero,
     updates |-> 0, samples |-> 0]

CalcNew ==
    /\ calc.pc = "idle"
    /\ calc' = [CalcNone EXCEPT !.pc = "live", !.op = "new"]
    /\ UNCHANGED <<ctlVars, parts, counter, stream, eta, auxVars>>

\* time passes
CalcTick ==
    /\ calc.pc = "live"
    /\ calc.now < MaxClock
    /\ calc' = [calc EXCEPT !.now = @ + 1]
    /\ UNCHANGED <<ctlVars, parts, counter, stream, eta, auxVars>>

CalcUpdate ==
    /\ calc.pc = "live"
    /\ \E bytesUploaded \in 0..MaxBytes :
          LET u == Update(calc.s, bytesUploaded, calc.now)
              f == Update(calc.fresh, bytesUploaded, calc.now)
          IN  calc' = [calc EXCEPT
                         !.s = u.s, !.ret = u.ret,
                         !.fresh = IF calc.hasFresh THEN f.s ELSE @,
                         !.freshRet = IF calc.hasFresh THEN f.ret ELSE @,
                         !.op = "update", !.arg = bytesUploaded,
                         !.updates = Min(@ + 1, 2),
                         !.samples = IF u.s = calc.s THEN @ ELSE @ + 1]
    /\ UNCHANGED <<ctlVars, parts, counter, stream, eta, auxVars>>

CalcReset ==
    /\ calc.pc = "live"
    /\ calc' = [calc EXCEPT !.s = Reset(@, calc.now),
                            !.hasFresh = TRUE,
                            !.cleared = /\ calc.s.smoothingWindow # <<>>
                                        /\ calc.s.lastBytesUploaded > 0,
                            !.fresh = NewSpeedCalculator(calc.now),
                            !.op = "reset", !.arg = 0,
                            !.ret = AvgZero, !.freshRet = AvgZero,
                            !.updates = 0, !.samples = 0]
    /\ UNCHANGED <<ctlVars, parts, counter, stream, eta, auxVars>>

(***************************************************************************)
(* CalculateETA (internal/providers/helpers_test.go).  A time.Duration is  *)
(* a two's-complement integer of DurationBits bits counting ticks of half  *)
(* a second (in the program: 64 bits counting nanoseconds).                *)
(***************************************************************************)
\* Go's integer division and float-to-integer conversion: towards zero
TruncDiv(a, b) ==
    IF (a >= 0) = (b > 0) THEN a \div b
    ELSE -((-a) \div b)

\* Go's integer remainder: the sign of the dividend
TruncMod(a, b) == a - b * TruncDiv(a, b)

\* the value an integer operation leaves in a time.Duration
WrapDuration(x) ==
    LET m == x % (2 ^ DurationBits)
    IN  IF m >= 2 ^ (DurationBits - 1) THEN m - 2 ^ DurationBits ELSE m

TimeMinute == 60 * TimeSecond

TimeHour == 60 * TimeMinute

\* the text CalculateETA returns: "calculating...", "~%ds", "~%dm %ds" or
\* "~%dh %dm" with its numbers
EtaText(form, a, b) == [form |-> form, a |-> a, b |-> b]

CalculateETA(bytesRemaining, speed) ==
    IF speed <= 0 THEN EtaText("calculating...", 0, 0)
    ELSE LET seconds == TruncDiv(bytesRemaining, speed)
             duration == WrapDuration(seconds * TimeSecond)
         IN  IF duration < TimeMinute
             THEN EtaText("~%ds", TruncDiv(duration, TimeSecond), 0)
             ELSE IF duration < TimeHour
             THEN EtaText("~%dm %ds", TruncDiv(duration, TimeMinute),
                          TruncMod(TruncDiv(duration, TimeSecond), 60))
             ELSE EtaText("~%dh %dm", TruncDiv(duration, TimeHour),
                          TruncMod(TruncDiv(duration, TimeMinute), 60))

EtaNone == [pc |-> "idle", bytesRemaining |-> 0, speed |-> 0,
            out |-> EtaText("calculating...", 0, 0)]

EtaCall ==
    /\ eta.pc = "idle"
    /\ \E bytesRemaining \in (-MaxSpeed)..MaxRemaining, speed \in (-1)..MaxSpeed :
          eta' = [pc |-> "returned", bytesRemaining |-> bytesRemaining,
                  speed |-> speed, out |-> CalculateETA(bytesRemaining, speed)]
    /\ UNCHANGED <<ctlVars, parts, counter, stream, calc, auxVars>>

\* the caller takes the text
EtaTaken ==
    /\ eta.pc = "returned"
    /\ eta' = EtaNone
    /\ UNCHANGED <<ctlVars, parts, counter, stream, calc, auxVars>>

(***************************************************************************)
(* internal/config/config.go: ConfigManager over a fyne.Preferences store. *)
(* The store maps a key to a typed value; a typed read of a key that is    *)
(* absent or holds another type gives the fallback.                        *)
(***************************************************************************)
keyTheme == "global.theme"

keyNotificationMode == "global.notification_mode"

prefixEnabled == ".enabled"

prefixAPIKey == ".api_key"

\* the provider names, API keys, themes and notification modes the
\* managers are called with
ProviderNames == {"Rootz", "global", "Rootz.enabled"}

APIKeys == {"", "global.theme"}

Themes == {"light", "dark"}

NotificationModes == {"always"}

Managers == 1..MaxManagers

\* the values of the store
PrefAbsent == [type |-> "none", b |-> FALSE, s |-> ""]

PrefBool(b) == [type |-> "bool", b |-> b, s |-> ""]

PrefString(s) == [type |-> "string", b |-> FALSE, s |-> s]

\* providerName+prefixEnabled, providerName+prefixAPIKey
ProviderKeyNoName(providerName, suffix) == suffix

ProviderKey(providerName, suffix) == providerName \o suffix

PrefKeys ==
    {keyTheme, keyNotificationMode} \cup
    {ProviderKey(P, sfx) : P \in ProviderNames, sfx \in {prefixEnabled, prefixAPIKey}}

BoolWithFallback(data, key, fallback) ==
    IF data[key].type = "bool" THEN data[key].b ELSE fallback

StringWithFallback(data, key, fallback) ==
    IF data[key].type = "string" THEN data[key].s ELSE fallback

SetBool(data, key, value) == [data EXCEPT ![key] = PrefBool(value)]

SetString(data, key, value) == [data EXCEPT ![key] = PrefString(value)]

ProviderConfig(enabled, apiKey) == [Enabled |-> enabled, APIKey |-> apiKey]

GlobalConfig(theme, mode) == [Theme |-> theme, NotificationMode |-> mode]

GetGlobalConfig(data) ==
    GlobalConfig(StringWithFallback(data, keyTheme, "auto"),
                 StringWithFallback(data, keyNotificationMode, "unfocused"))

SetGlobalConfig(data, cfg) ==
    SetString(SetString(data, keyTheme, cfg.Theme),
              keyNotificationMode, cfg.NotificationMode)

GetProviderConfig(data, providerName) ==
    ProviderConfig(BoolWithFallback(data, ProviderKey(providerName, prefixEnabled), FALSE),
                   StringWithFallback(data, ProviderKey(providerName, prefixAPIKey), ""))

SetProviderConfig(data, providerName, cfg) ==
    SetString(SetBool(data, ProviderKey(providerName, prefixEnabled), cfg.Enabled),
              ProviderKey(providerName, prefixAPIKey), cfg.APIKey)

IsProviderEnabled(data, providerName) ==
    BoolWithFallback(data, ProviderKey(providerName, prefixEnabled), FALSE)

GetProviderAPIKey(data, providerName) ==
    StringWithFallback(data, ProviderKey(providerName, prefixAPIKey), "")

\* no preferences yet.  data is the store; managers the ConfigManagers made
\* over it; set the providers that were set, last the last value set for
\* each, lastGlobal the last global value set (setGlobal: whether any was);
\* by, name, got, enabled, apiKey the last read: the manager, the provider
\* and what the three getters returned; fresh whether nothing was set since
PrefsNone ==
    [pc |-> "idle", data |-> [k \in PrefKeys |-> PrefAbsent], managers |-> 0,
     set |-> {}, last |-> [P \in ProviderNames |-> ProviderConfig(FALSE, "")],
     setGlobal |-> FALSE, lastGlobal |-> GlobalConfig("auto", "unfocused"),
     by |-> 0, name |-> "", got |-> ProviderConfig(FALSE, ""),
     enabled |-> FALSE, apiKey |-> "", fresh |-> FALSE]

\* NewConfigManager(prefs): one more manager over the same preferences
PrefsNewManager ==
    /\ prefs.managers < MaxManagers
    /\ prefs' = [prefs EXCEPT !.pc = "open", !.managers = @ + 1]
    /\ UNCHANGED <<ctlVars, libVars, extVars, shared, body, sess, send>>

PrefsSetProvider ==
    /\ prefs.pc = "open"
    /\ \E m \in 1..prefs.managers, P \in ProviderNames,
          enabled \in BOOLEAN, apiKey \in APIKeys :
          LET cfg == ProviderConfig(enabled, apiKey)
          IN  prefs' = [prefs EXCEPT !.data = SetProviderConfig(@, P, cfg),
                                     !.set = @ \cup {P}, !.last[P] = cfg,
                                     !.fresh = FALSE]
    /\ UNCHANGED <<ctlVars, libVars, extVars, shared, body, sess, send>>

PrefsSetGlobal ==
    /\ prefs.pc = "open"
    /\ \E m \in 1..prefs.managers, theme \in Themes, mode \in NotificationModes :
          LET cfg == GlobalConfig(theme, mode)
          IN  prefs' = [prefs EXCEPT !.data = SetGlobalConfig(@, cfg),
                                     !.setGlobal = TRUE, !.lastGlobal = cfg,
                                     !.fresh = FALSE]
    /\ UNCHANGED <<ctlVars, libVars, extVars, shared, body, sess, send>>

\* a manager reads a provider with the three getters
PrefsGet ==
    /\ prefs.pc = "open"
    /\ \E m \in 1..prefs.managers, P \in ProviderNames :
          prefs' = [prefs EXCEPT !.by = m, !.name = P, !.fresh = TRUE,
                                 !.got = GetProviderConfig(prefs.data, P),
                                 !.enabled = IsProviderEnabled(prefs.data, P),
                                 !.apiKey = GetProviderAPIKey(prefs.data, P)]
    /\ UNCHANGED <<ctlVars, libVars, extVars, shared, body, sess, send>>

(***************************************************************************)
(* internal/httpclient/shared.go: Default() and LongLived() behind a       *)
(* sync.Once each, called from several goroutines.  A *Client is its       *)
(* number, in the order of construction, with its configuration; 0 is nil. *)
(***************************************************************************)
Profiles == {"Default", "LongLived"}

Callers == 1..MaxCallers

ProfileConfig(profile) ==
    IF profile = "Default" THEN DefaultConfig ELSE LongLivedConfig

NilClient == [id |-> 0, cfg |-> DefaultConfig]

\* NewClient(config)
NewClient(id, config) == [id |-> id, cfg |-> config]

\* the package variables and the goroutines: once[p] is the sync.Once of
\* profile p (done, and m its mutex held), client[p] the package variable,
\* made the clients constructed so far; of a goroutine, pc is its place,
\* profile the function it called and ret what the function returned;
\* returned[p] collects what the calls for p returned
SharedNone ==
    [once |-> [p \in Profiles |-> [done |-> FALSE, m |-> FALSE]],
     client |-> [p \in Profiles |-> NilClient],
     made |-> <<>>,
     g |-> [c \in Callers |-> [pc |-> "idle", profile |-> "Default",
                                ret |-> NilClient]],
     returned |-> [p \in Profiles |-> {}]]

\* sync.Once.Do at its entry: "skip" when done is set, "run" when the mutex
\* is taken and done is still unset, "wait" while another holds the mutex
OnceDoUnguarded(o) == IF o.done THEN "skip" ELSE "run"

OnceDo(o) ==
    IF o.done THEN "skip"
    ELSE IF o.m THEN "wait"
    ELSE "run"

\* a goroutine calls Default() or LongLived()
SharedCall ==
    /\ \E c \in Callers, p \in Profiles :
          /\ shared.g[c].pc = "idle"
          /\ shared' = [shared EXCEPT !.g[c] = [pc |-> "once", profile |-> p,
                                                ret |-> NilClient]]
    /\ UNCHANGED <<ctlVars, libVars, extVars, prefs, body, sess, send>>

\* the goroutine enters once.Do
SharedOnce ==
    /\ \E c \in Callers :
          LET p == shared.g[c].profile
              branch == OnceDo(shared.once[p])
          IN  /\ shared.g[c].pc = "once"
              /\ branch # "wait"
              /\ shared' = IF branch = "skip"
                           THEN [shared EXCEPT !.g[c].pc = "load"]
                           ELSE [shared EXCEPT !.g[c].pc = "construct",
                                               !.once[p].m = TRUE]
    /\ UNCHANGED <<ctlVars, libVars, extVars, prefs, body, sess, send>>

\* the function passed to once.Do: the client is constructed and stored;
\* done is set and the mutex released
SharedConstruct ==
    /\ \E c \in Callers :
          LET p == shared.g[c].profile
              cl == NewClient(Len(shared.made) + 1, ProfileConfig(p))
          IN  /\ shared.g[c].pc = "construct"
              /\ shared' = [shared EXCEPT !.g[c].pc = "load",
                                          !.client[p] = cl,
                                          !.made = Append(@, [profile |-> p, client |-> cl]),
                                          !.once[p] = [done |-> TRUE, m |-> FALSE]]
    /\ UNCHANGED <<ctlVars, libVars, extVars, prefs, body, sess, send>>

\* return defaultClient / return longLivedClient
SharedReturn ==
    /\ \E c \in Callers :
          LET p == shared.g[c].profile
          IN  /\ shared.g[c].pc = "load"
              /\ shared' = [shared EXCEPT !.g[c].pc = "idle",
                                          !.g[c].ret = shared.client[p],
                                          !.returned[p] = @ \cup {shared.client[p]}]
    /\ UNCHANGED <<ctlVars, libVars, extVars, prefs, body, sess, send>>

(***************************************************************************)
(* internal/httpclient/client.go: the body of a request over the attempts  *)
(* of Client.Do.  A body is a stream of len blocks; pos is how far the     *)
(* stream the caller gave has been read.                                   *)
(***************************************************************************)
\* the bodies the providers give their requests: a *bytes.Reader, for which
\* http.NewRequestWithContext sets GetBody (the JSON calls), and a
\* progressReader, for which it does not (the PUT of a part, whose
\* ContentLength is set by hand)
BodyKinds == {"bytes.Reader", "progressReader"}

HasGetBody(kind) == kind = "bytes.Reader"

BodyMethods == {"PUT", "POST"}

BodyCtx == 1

\* what an attempt can come to
BodyOutcomes ==
    {RespOutcome(200), RespOutcome(503), ErrOutcome("econnreset"), ErrOutcome("other")}

\* no request: sends lists, attempt by attempt, the offset in the body at
\* which the stream handed to the HTTP client stood (from) and whether that
\* stream was the caller's own (shared)
BodyNone ==
    [pc |-> "idle", kind |-> "bytes.Reader", len |-> 0, pos |-> 0,
     sends |-> <<>>]

\* cloneRequest: the clone's body is a new reader from GetBody when the
\* request has one, and the caller's stream otherwise
cloneRequest(b) ==
    IF HasGetBody(b.kind) THEN [from |-> 0, shared |-> FALSE]
    ELSE [from |-> b.pos, shared |-> TRUE]

\* the stream of the attempt in progress
BodyCur(b) == b.sends[Len(b.sends)]

\* the attempt reads n blocks of its stream
BodyRead(b, n) == IF BodyCur(b).shared THEN [b EXCEPT !.pos = @ + n] ELSE b

\* a request with a body is given to Do; a method that is not idempotent is
\* sent as it is, once
BodyRequest ==
    /\ body.pc = "idle"
    /\ do.pc = "idle"
    /\ \E kind \in BodyKinds, method \in BodyMethods, len \in 1..MaxBodyLen :
          /\ do' = DoEnter(method, LongLivedConfig, BodyCtx)
          /\ body' = [BodyNone EXCEPT !.pc = "active", !.kind = kind, !.len = len,
                         !.sends = IF isIdempotent(method) THEN <<>>
                                   ELSE <<[from |-> 0, shared |-> TRUE]>>]
    /\ UNCHANGED <<ctxDone, tab, gen, up, panicked, libVars, extVars, prefs, shared, sess, send>>

\* the operation starts an attempt: the context check, then the clone is
\* handed to the HTTP client
BodyOperation ==
    /\ body.pc = "active"
    /\ do.pc = "operation"
    /\ do' = DoOperationStep(do, ctxDone)
    /\ body' = IF do'.pc = "inflight"
               THEN [body EXCEPT !.sends = Append(@, cloneRequest(body))]
               ELSE body
    /\ UNCHANGED <<ctxDone, tab, gen, up, panicked, libVars, extVars, prefs, shared, sess, send>>

\* the outcomes of an attempt that has read n of the blocks its stream had
\* left: a response comes after the whole stream was read; a stream shorter
\* than the request's ContentLength makes the HTTP client fail the attempt
BodyAttemptOutcomes(b, n) ==
    LET cur == BodyCur(b)
    IN  IF cur.from > 0 THEN {ErrOutcome("other")}
        ELSE {o \in BodyOutcomes : o.err = NoErr => n = b.len - cur.from}

BodyAttempt ==
    /\ body.pc = "active"
    /\ do.pc \in {"inflight", "single"}
    /\ \E n \in 0..(body.len - BodyCur(body).from) :
       \E o \in BodyAttemptOutcomes(body, n) :
          /\ do' = IF do.pc = "single" THEN DoSingleStep(do, o)
                   ELSE DoAttemptStep(do, o, 0)
          /\ body' = BodyRead(body, n)
    /\ UNCHANGED <<ctxDone, tab, gen, up, panicked, libVars, extVars, prefs, shared, sess, send>>

BodyWait ==
    /\ body.pc = "active"
    /\ do.pc = "backoff"
    /\ do' = DoWaitStep(do)
    /\ UNCHANGED <<ctxDone, tab, gen, up, panicked, libVars, extVars, prefs, shared, sess, send, body>>

\* Do has returned
BodyReturn ==
    /\ body.pc = "active"
    /\ do.pc = "returned"
    /\ do' = DoIdle
    /\ body' = [body EXCEPT !.pc = "done"]
    /\ UNCHANGED <<ctxDone, tab, gen, up, panicked, libVars, extVars, prefs, shared, sess, send>>

(***************************************************************************)
(* The session-POST providers: FileKeeperProvider.Upload (unnamed/part_002)*)
(* and DataVaults.Upload (internal/providers/helpers_test.go).  A GET asks *)
(* for the upload server, a POST carries the file.                         *)
(***************************************************************************)
SessionProviders == {"FileKeeper", "DataVaults"}

SessCtx == 1

\* what a request of these providers can come to
SessOutcomes ==
    {RespOutcome(200), RespOutcome(404), RespOutcome(503),
     ErrOutcome("canceled"), ErrOutcome("other")}

\* the body of the session answer: not JSON, or an envelope whose status is
\* 200 or another
Envelopes == {"syntax", "status200", "statusOther"}

\* the body of the POST's answer: not JSON, or an array
Arrays == {"syntax", "empty", "nonEmpty"}

\* FileKeeper sends both requests through plain clients, DataVaults through
\* httpclient (Default for the session, LongLived for the POST)
SessRequest(provider, method, cfg) ==
    IF provider = "DataVaults" THEN DoEnter(method, cfg, SessCtx)
    ELSE PlainRequest(method, SessCtx)

\* no upload: sessionHTTP and envelope are what the session request was
\* answered with, posted whether the POST was sent, postHTTP and array what
\* it was answered with
SessNone ==
    [pc |-> "idle", provider |-> "FileKeeper", sessionHTTP |-> 0,
     envelope |-> "none", posted |-> FALSE, postHTTP |-> 0, array |-> "none",
     ret |-> NoCompletion]

SessFail(s, err) == [s EXCEPT !.pc = "returned", !.ret = Completion(FALSE, err)]

\* the providers' tests of the session answer's HTTP status
SessionStatusBad(provider, status) ==
    provider = "FileKeeper" /\ status # 200

\* Upload is called: the session request is sent
SessUpload ==
    /\ sess.pc = "idle"
    /\ do.pc = "idle"
    /\ \E provider \in SessionProviders :
          /\ sess' = [SessNone EXCEPT !.pc = "session", !.provider = provider]
          /\ do' = SessRequest(provider, "GET", DefaultConfig)
    /\ UNCHANGED <<ctxDone, tab, gen, up, panicked, libVars, extVars, prefs, shared, body, send>>

SessInFlight == sess.pc \in {"session", "post"}

SessOperation ==
    /\ SessInFlight
    /\ do.pc = "operation"
    /\ do' = DoOperationStep(do, ctxDone)
    /\ UNCHANGED <<ctxDone, tab, gen, up, panicked, libVars, extVars, prefs, shared, body, send, sess>>

SessAttempt ==
    /\ SessInFlight
    /\ do.pc \in {"inflight", "single"}
    /\ \E o \in PossibleOutcomes(do.ctx, ctxDone, SessOutcomes) :
          do' = IF do.pc = "single" THEN DoSingleStep(do, o)
                ELSE DoAttemptStep(do, o, 0)
    /\ UNCHANGED <<ctxDone, tab, gen, up, panicked, libVars, extVars, prefs, shared, body, send, sess>>

SessWait ==
    /\ SessInFlight
    /\ do.pc = "backoff"
    /\ do' = DoWaitStep(do)
    /\ UNCHANGED <<ctxDone, tab, gen, up, panicked, libVars, extVars, prefs, shared, body, send, sess>>

\* the session request has returned: after the providers' tests of the
\* answer the POST is sent
SessSessionReturn ==
    /\ sess.pc = "session"
    /\ do.pc = "returned"
    /\ IF do.ret.err # NoErr
       THEN /\ sess' = SessFail(sess,
                          IF sess.provider = "FileKeeper"
                          THEN Wrap("failed to get upload server", do.ret.err)
                          ELSE do.ret.err)
            /\ do' = DoIdle
       ELSE \E envelope \in Envelopes :
               LET s == [sess EXCEPT !.sessionHTTP = do.ret.resp,
                                     !.envelope = envelope]
               IN  IF SessionStatusBad(sess.provider, do.ret.resp)
                   THEN /\ envelope = "syntax"
                        /\ sess' = SessFail([s EXCEPT !.envelope = "none"],
                                      Wrap("failed to get upload server",
                                           ErrWithStatus("get upload server failed",
                                                         do.ret.resp)))
                        /\ do' = DoIdle
                   ELSE IF envelope = "syntax"
                   THEN /\ sess' = SessFail(s,
                                      IF sess.provider = "FileKeeper"
                                      THEN Wrap("failed to get upload server", ErrBadJSON)
                                      ELSE ErrBadJSON)
                        /\ do' = DoIdle
                   ELSE IF envelope = "statusOther"
                   THEN /\ sess' = SessFail(s,
                                      IF sess.provider = "FileKeeper"
                                      THEN Wrap("failed to get upload server",
                                                MsgErr("server returned error", {}))
                                      ELSE ErrServerMsg)
                        /\ do' = DoIdle
                   ELSE /\ sess' = [s EXCEPT !.pc = "post", !.posted = TRUE]
                        /\ do' = SessRequest(sess.provider, "POST", LongLivedConfig)
    /\ UNCHANGED <<ctxDone, tab, gen, up, panicked, libVars, extVars, prefs, shared, body, send>>

\* the texts of FileKeeper's and DataVaults' errors after the POST
PostErr(provider, e) ==
    IF provider = "FileKeeper" THEN Wrap("failed to upload file", e) ELSE e

\* the POST has returned
SessPostReturn ==
    /\ sess.pc = "post"
    /\ do.pc = "returned"
    /\ do' = DoIdle
    /\ IF do.ret.err # NoErr
       THEN sess' = SessFail(sess,
                       PostErr(sess.provider,
                               IF ErrIsCanceled(do.ret.err) THEN ErrUploadCancelled
                               ELSE do.ret.err))
       ELSE IF do.ret.resp # 200
       THEN sess' = SessFail([sess EXCEPT !.postHTTP = do.ret.resp],
                       IF sess.provider = "FileKeeper"
                       THEN PostErr(sess.provider,
                                    ErrWithStatus("upload failed", do.ret.resp))
                       ELSE ErrServerReturned(do.ret.resp))
       ELSE \E array \in Arrays :
               LET s == [sess EXCEPT !.postHTTP = 200, !.array = array]
               IN  sess' =
                      IF array = "syntax"
                      THEN SessFail(s, PostErr(sess.provider, ErrBadJSON))
                      ELSE IF array = "empty"
                      THEN SessFail(s,
                              IF sess.provider = "FileKeeper"
                              THEN PostErr(sess.provider,
                                      MsgErr("FileKeeper returned empty response", {}))
                              ELSE ErrEmptyResponse)
                      ELSE [s EXCEPT !.pc = "returned",
                                     !.ret = Completion(TRUE, NoErr)]
    /\ UNCHANGED <<ctxDone, tab, gen, up, panicked, libVars, extVars, prefs, shared, body, send>>

\* the caller cancels the upload's context
SessCancel ==
    /\ SessInFlight
    /\ SessCtx \notin ctxDone
    /\ ctxDone' = ctxDone \cup {SessCtx}
    /\ UNCHANGED <<do, tab, gen, up, panicked, libVars, extVars, prefs, shared, body, send, sess>>

(***************************************************************************)
(* The progress channel as the providers' Upload functions use it: the     *)
(* channel is Upload's parameter, a Go channel of some capacity with a     *)
(* receiver on its other end; each provider sends its updates at its own   *)
(* send sites.                                                             *)
(***************************************************************************)
SendProviders == {"AkiraBox", "Rootz", "FileKeeper", "DataVaults", "Mock"}

\* the send sites of the transfer path of each provider, in the order of
\* an upload that makes n updates before its last: the onProgress callback
\* of a part (AkiraBox, Rootz's chunked path), the final update of Rootz's
\* small path, the ticker and final updates of MockProvider; FileKeeper and
\* DataVaults send from a goroutine of their own
SendSites(provider, path, n) ==
    CASE provider = "AkiraBox" -> [i \in 1..n |-> "callback"]
      [] provider = "Rootz" /\ path = "large" -> [i \in 1..n |-> "callback"]
      [] provider = "Rootz" /\ path = "small" -> <<"final">>
      [] provider = "Mock" -> [i \in 1..n |-> "ticker"] \o <<"final">>
      [] OTHER -> <<>>

\* providers whose updates come from a progress goroutine with a ticker
TickerProviders == {"FileKeeper", "DataVaults"}

\* how a site sends: select { case progress <- upd: default: } or
\* progress <- upd
SiteForm(provider, site) ==
    IF site = "callback" THEN "select" ELSE "send"

\* the channel at rest and no upload: cap and len are the channel's capacity
\* and the number of updates buffered, recv whether the receiver stands at
\* its receive; left the send sites the transfer path has still to pass;
\* tick the place of the progress goroutine; sent and dropped count the
\* updates
SendNone ==
    [pc |-> "idle", provider |-> "Rootz", path |-> "small", cap |-> 0,
     len |-> 0, recv |-> FALSE, left |-> <<>>, tick |-> "none",
     cancelled |-> FALSE, sent |-> 0, dropped |-> 0]

\* a send can proceed at once: a free slot, or a receiver standing by
SendReady(s) == s.len < s.cap \/ s.recv

\* the update goes into the channel (straight to a waiting receiver)
SendPut(s) ==
    IF s.recv THEN [s EXCEPT !.recv = FALSE, !.sent = @ + 1]
    ELSE [s EXCEPT !.len = @ + 1, !.sent = @ + 1]

\* Upload is called with a fresh channel of some capacity
SendUpload ==
    /\ send.pc = "idle"
    /\ \E provider \in SendProviders, path \in {"small", "large"},
          cap \in 0..MaxChanCap, n \in 0..MaxUpdates :
          /\ provider # "Rootz" => path = "large"
          /\ send' = [SendNone EXCEPT !.pc = "running", !.provider = provider,
                         !.path = path, !.cap = cap,
                         !.left = SendSites(provider, path, n),
                         !.tick = IF provider \in TickerProviders
                                  THEN "select" ELSE "none"]
    /\ UNCHANGED <<ctlVars, libVars, extVars, prefs, shared, body, sess>>

\* the transfer path reaches its next send site
SendSite ==
    /\ send.pc = "running"
    /\ send.left # <<>>
    /\ LET site == Head(send.left)
           s == [send EXCEPT !.left = Tail(@)]
       IN  send' =
              IF send.provider = "Mock" /\ site = "ticker" /\ send.cancelled
              THEN [send EXCEPT !.pc = "done"]
              ELSE IF SendReady(s) THEN SendPut(s)
              ELSE IF SiteForm(send.provider, site) = "select"
              THEN [s EXCEPT !.dropped = @ + 1]
              ELSE [s EXCEPT !.pc = "blocked"]
    /\ UNCHANGED <<ctlVars, libVars, extVars, prefs, shared, body, sess>>

\* a send that was waiting proceeds
SendUnblock ==
    /\ send.pc = "blocked"
    /\ SendReady(send)
    /\ send' = SendPut([send EXCEPT !.pc = "running"])
    /\ UNCHANGED <<ctlVars, libVars, extVars, prefs, shared, body, sess>>

\* the receiver takes an update, or comes to stand at its receive
SendReceive ==
    /\ send.pc \notin {"idle"}
    /\ ~send.recv
    /\ send' = IF send.len > 0 THEN [send EXCEPT !.len = @ - 1]
               ELSE [send EXCEPT !.recv = TRUE]
    /\ UNCHANGED <<ctlVars, libVars, extVars, prefs, shared, body, sess>>

\* the progress goroutine of FileKeeper and DataVaults: at a tick it builds
\* an update and offers it in a select with ctx.Done() and stopProgress
SendTick ==
    /\ send.pc = "running"
    /\ send.tick = "select"
    /\ send.sent + send.dropped < MaxUpdates
    /\ send' = IF send.cancelled THEN [send EXCEPT !.tick = "exited"]
               ELSE IF SendReady(send) THEN SendPut(send)
               ELSE [send EXCEPT !.tick = "offering"]
    /\ UNCHANGED <<ctlVars, libVars, extVars, prefs, shared, body, sess>>

\* the offer ends: the update is taken, or the context is cancelled or
\* stopProgress closed first, and the update is given up
SendTickEnd ==
    /\ send.tick = "offering"
    /\ \/ /\ SendReady(send)
          /\ send' = SendPut([send EXCEPT !.tick = "select"])
       \/ /\ send.cancelled \/ send.pc = "done"
          /\ send' = [send EXCEPT !.tick = "exited", !.dropped = @ + 1]
    /\ UNCHANGED <<ctlVars, libVars, extVars, prefs, shared, body, sess>>

\* the transfer path has passed its last send site: Upload returns (and its
\* deferred close(stopProgress) runs)
SendReturn ==
    /\ send.pc = "running"
    /\ send.left = <<>>
    /\ send' = [send EXCEPT !.pc = "done",
                            !.tick = IF @ = "select" THEN "exited" ELSE @]
    /\ UNCHANGED <<ctlVars, libVars, extVars, prefs, shared, body, sess>>

\* the upload's context is cancelled
SendCancel ==
    /\ send.pc \in {"running", "blocked"}
    /\ ~send.cancelled
    /\ send' = [send EXCEPT !.cancelled = TRUE]
    /\ UNCHANGED <<ctlVars, libVars, extVars, prefs, shared, body, sess>>

(***************************************************************************)
(* The UploadTab's fields under the goroutines that share them.  Here one  *)
(* statement of onUpload, startUpload and finishUpload is one step, so     *)
(* that the UI thread, the ticker goroutine of a finished upload and the   *)
(* goroutines of the next upload interleave as the scheduler lets them.    *)
(* A critical section of progressMutex is one step.  The provider is       *)
(* reduced to what the tab sees of it: the values it puts on the progress  *)
(* channel and its return.  A field that holds a function, a channel, a    *)
(* snapshot or a size holds the number of the upload it belongs to, 0 for  *)
(* nil.                                                                    *)
(***************************************************************************)
FldUpNone ==
    [transfer |-> "none", track |-> "none", ticker |-> "none", chan |-> 0,
     sent |-> 0, result |-> "none", got |-> "none"]

FieldsNone ==
    [isUploading |-> FALSE, cancelUpload |-> 0, stopUIUpdate |-> 0,
     latestProgress |-> 0, totalSize |-> 0, started |-> 0, cancelled |-> {},
     ui |-> "idle", nilCall |-> FALSE,
     up |-> [g \in Uploads |-> FldUpNone],
     progressBinding |-> [by |-> 0, of |-> 0]]

\* a goroutine of some upload has been started and has not returned
FldRunning(f) ==
    \E g \in Uploads :
        \/ f.up[g].transfer \notin {"none", "done"}
        \/ f.up[g].track \notin {"none", "done"}
        \/ f.up[g].ticker \notin {"none", "done"}

\* startUpload can begin
FldCanStart(f) ==
    /\ f.ui = "idle"
    /\ ~f.nilCall
    /\ ~f.isUploading
    /\ f.started < MaxUploads

\* one read or write of a field, with the lock it is made under
FldAccess(field, op, lock, by) ==
    [field |-> field, op |-> op, lock |-> lock, by |-> by]

\* the reads and writes of latestProgress and totalSize that the threads
\* are about to make: the statement each one stands at
FldAccesses(f) ==
    (IF f.ui = "totalSize"
     THEN {FldAccess("totalSize", "write", "none", "ui")} ELSE {})
    \cup
    (IF FldCanStart(f)
     THEN {FldAccess("latestProgress", "write", "Lock", "ui"),
           FldAccess("totalSize", "read", "none", "ui")} ELSE {})
    \cup
    UNION {
        (IF f.up[g].track = "store"
         THEN {FldAccess("latestProgress", "write", "Lock", "track")}
         ELSE {})
        \cup
        (IF f.up[g].ticker = "select"
         THEN {FldAccess("latestProgress", "read", "RLock", "ticker"),
               FldAccess("totalSize", "read", "RLock", "ticker")}
         ELSE {})
        \cup
        (IF f.up[g].ticker = "latestProgress"
         THEN {FldAccess("latestProgress", "write", "Lock", "ticker")}
         ELSE {})
        \cup
        (IF f.up[g].ticker = "fyne.Do" /\ f.up[g].got = "err"
         THEN {FldAccess("totalSize", "read", "none", "ticker")}
         ELSE {}) : g \in Uploads}

\* something the user sees is created, shown or changed
FldShow(what, by, via) == [what |-> what, by |-> by, via |-> via]

\* what the threads are about to create, show or change of the user
\* interface: the statement each one stands at
FldShows(f) ==
    (IF FldCanStart(f)
     THEN {FldShow("widgets", "ui", "direct"),
           FldShow("showFriendlyError", "ui", "direct")} ELSE {})
    \cup
    UNION {
        (IF f.up[g].ticker = "select" /\ f.latestProgress # 0
         THEN {FldShow("progress", "ticker", "binding")} ELSE {})
        \cup
        (IF f.up[g].ticker = "fyne.Do"
         THEN {FldShow("widgets", "ticker", "fyne.Do"),
               FldShow(IF f.up[g].got = "err" THEN "showFriendlyError"
                       ELSE "showResult", "ticker", "direct")}
         ELSE {}) : g \in Uploads}

\* onUpload with a file and a provider selected: t.isUploading holds and
\* t.cancelUpload is not nil
FldOnUpload ==
    /\ fields.ui = "idle"
    /\ ~fields.nilCall
    /\ fields.isUploading
    /\ fields.cancelUpload # 0
    /\ fields' = [fields EXCEPT !.ui = "cancelUpload"]
    /\ UNCHANGED <<ctlVars, libVars, prefs, shared, body, sess, send>>
    /\ UNCHANGED <<friendly, release, emitted, helpers>>

\* t.cancelUpload(): the field is read again for the call, and the value
\* called is the one the test saw (that of the last upload started) or the
\* one the field holds now; a context whose provider has returned is left
\* out of cancelled
FldCancelCall ==
    /\ fields.ui = "cancelUpload"
    /\ \E fn \in {fields.started, fields.cancelUpload} :
          fields' = [fields EXCEPT
                        !.ui = "idle",
                        !.nilCall = (fn = 0),
                        !.cancelled =
                            IF fn # 0 /\ fields.up[fn].transfer = "upload"
                            THEN @ \cup {fn} ELSE @]
    /\ UNCHANGED <<ctlVars, libVars, prefs, shared, body, sess, send>>
    /\ UNCHANGED <<friendly, release, emitted, helpers>>

\* startUpload up to the go statement of the transfer goroutine
FldStartUpload ==
    /\ FldCanStart(fields)
    /\ LET g == fields.started + 1
       IN  fields' = [fields EXCEPT !.isUploading = TRUE,
                                    !.started = g,
                                    !.cancelUpload = g,
                                    !.ui = "totalSize",
                                    !.progressBinding = [by |-> 0, of |-> 0],
                                    !.up[g].transfer = "upload"]
    /\ UNCHANGED <<ctlVars, libVars, prefs, shared, body, sess, send>>
    /\ UNCHANGED <<friendly, release, emitted, helpers>>

\* startUpload when the provider is unknown or the file cannot be opened:
\* finishUpload and its dialog on the UI thread, no goroutine started
FldStartUploadFails ==
    /\ FldCanStart(fields)
    /\ fields' = [fields EXCEPT !.started = @ + 1,
                                !.isUploading = FALSE,
                                !.cancelUpload = 0,
                                !.stopUIUpdate = 0,
                                !.latestProgress = 0]
    /\ UNCHANGED <<ctlVars, libVars, prefs, shared, body, sess, send>>
    /\ UNCHANGED <<friendly, release, emitted, helpers>>

\* t.totalSize = fileSize
FldTotalSize ==
    /\ fields.ui = "totalSize"
    /\ fields' = [fields EXCEPT !.ui = "stopUIUpdate",
                                !.totalSize = fields.started]
    /\ UNCHANGED <<ctlVars, libVars, prefs, shared, body, sess, send>>
    /\ UNCHANGED <<friendly, release, emitted, helpers>>

\* the rest of startUpload: stopUIUpdate and the two go statements
FldGo ==
    /\ fields.ui = "stopUIUpdate"
    /\ LET g == fields.started
       IN  fields' = [fields EXCEPT !.ui = "idle",
                                    !.stopUIUpdate = g,
                                    !.up[g].ticker = "select",
                                    !.up[g].track = "range"]
    /\ UNCHANGED <<ctlVars, libVars, prefs, shared, body, sess, send>>
    /\ UNCHANGED <<friendly, release, emitted, helpers>>

\* the provider puts a value on the progress channel
FldEmit ==
    /\ \E g \in Uploads :
          /\ fields.up[g].transfer = "upload"
          /\ fields.up[g].sent < MaxSnapshots
          /\ fields.up[g].chan < ProgressChanCap
          /\ fields' = [fields EXCEPT !.up[g].sent = @ + 1,
                                      !.up[g].chan = @ + 1]
    /\ UNCHANGED <<ctlVars, libVars, prefs, shared, body, sess, send>>
    /\ UNCHANGED <<friendly, release, emitted, helpers>>

\* provider.Upload returns, the completion goes into uploadResult and the
\* deferred close(progressChan) runs; a cancelled context ends the upload
\* with an error
FldUploadReturn ==
    /\ \E g \in Uploads :
          /\ fields.up[g].transfer = "upload"
          /\ \E r \in IF g \in fields.cancelled THEN {"err"}
                      ELSE {"ok", "err"} :
                fields' = [fields EXCEPT !.up[g].transfer = "done",
                                         !.up[g].result = r,
                                         !.cancelled = @ \ {g}]
    /\ UNCHANGED <<ctlVars, libVars, prefs, shared, body, sess, send>>
    /\ UNCHANGED <<friendly, release, emitted, helpers>>

\* trackProgress: the range takes a value, or ends on the closed channel
FldTrackReceive ==
    /\ \E g \in Uploads :
          /\ fields.up[g].track = "range"
          /\ \/ /\ fields.up[g].chan > 0
                /\ fields' = [fields EXCEPT !.up[g].chan = @ - 1,
                                            !.up[g].track = "store"]
             \/ /\ fields.up[g].chan = 0
                /\ fields.up[g].transfer = "done"
                /\ fields' = [fields EXCEPT !.up[g].track = "done"]
    /\ UNCHANGED <<ctlVars, libVars, prefs, shared, body, sess, send>>
    /\ UNCHANGED <<friendly, release, emitted, helpers>>

\* trackProgress: Lock, t.latestProgress = &progressCopy, Unlock
FldTrackStore ==
    /\ \E g \in Uploads :
          /\ fields.up[g].track = "store"
          /\ fields' = [fields EXCEPT !.up[g].track = "range",
                                      !.latestProgress = g]
    /\ UNCHANGED <<ctlVars, libVars, prefs, shared, body, sess, send>>
    /\ UNCHANGED <<friendly, release, emitted, helpers>>

\* updateUIFromProgress on a tick: the two fields are read under RLock and
\* a snapshot that is there goes to the bindings
FldTick ==
    /\ \E g \in Uploads :
          /\ fields.up[g].ticker = "select"
          /\ fields.latestProgress # 0
          /\ fields' = [fields EXCEPT
                           !.progressBinding =
                               [by |-> g, of |-> fields.latestProgress]]
    /\ UNCHANGED <<ctlVars, libVars, prefs, shared, body, sess, send>>
    /\ UNCHANGED <<friendly, release, emitted, helpers>>

\* updateUIFromProgress takes the completion; finishUpload closes
\* stopUIUpdate and sets it to nil
FldReceive ==
    /\ \E g \in Uploads :
          /\ fields.up[g].ticker = "select"
          /\ fields.up[g].result # "none"
          /\ fields' = [fields EXCEPT !.up[g].ticker = "isUploading",
                                      !.up[g].got = fields.up[g].result,
                                      !.up[g].result = "none",
                                      !.stopUIUpdate = 0]
    /\ UNCHANGED <<ctlVars, libVars, prefs, shared, body, sess, send>>
    /\ UNCHANGED <<friendly, release, emitted, helpers>>

\* finishUpload: t.isUploading = false
FldIsUploading ==
    /\ \E g \in Uploads :
          /\ fields.up[g].ticker = "isUploading"
          /\ fields' = [fields EXCEPT !.up[g].ticker = "cancelUpload",
                                      !.isUploading = FALSE]
    /\ UNCHANGED <<ctlVars, libVars, prefs, shared, body, sess, send>>
    /\ UNCHANGED <<friendly, release, emitted, helpers>>

\* finishUpload: t.cancelUpload = nil
FldCancelUpload ==
    /\ \E g \in Uploads :
          /\ fields.up[g].ticker = "cancelUpload"
          /\ fields' = [fields EXCEPT !.up[g].ticker = "latestProgress",
                                      !.cancelUpload = 0]
    /\ UNCHANGED <<ctlVars, libVars, prefs, shared, body, sess, send>>
    /\ UNCHANGED <<friendly, release, emitted, helpers>>

\* finishUpload: latestProgress cleared under the lock
FldLatestProgress ==
    /\ \E g \in Uploads :
          /\ fields.up[g].ticker = "latestProgress"
          /\ fields' = [fields EXCEPT !.up[g].ticker = "fyne.Do",
                                      !.latestProgress = 0]
    /\ UNCHANGED <<ctlVars, libVars, prefs, shared, body, sess, send>>
    /\ UNCHANGED <<friendly, release, emitted, helpers>>

\* the end of finishUpload on the ticker goroutine: after a failure the log
\* line that reads t.totalSize and showFriendlyError, then fyne.Do; after
\* a success showResult follows; updateUIFromProgress returns
FldFinish ==
    /\ \E g \in Uploads :
          /\ fields.up[g].ticker = "fyne.Do"
          /\ fields' = [fields EXCEPT !.up[g].ticker = "done"]
    /\ UNCHANGED <<ctlVars, libVars, prefs, shared, body, sess, send>>
    /\ UNCHANGED <<friendly, release, emitted, helpers>>

(***************************************************************************)
(* MakeFriendly on the errors the providers' Upload returns.               *)
(***************************************************************************)
\* the statuses a server can answer an upload's request with
FriendlyStatuses == {400, 401, 403, 404, 408, 413, 429, 500, 501, 502, 503, 504}

\* The places where a provider turns the status of an answer into an error:
\* the texts put in front of it on its way out of Upload (the outermost
\* first), the text that names the status, the method of the request and
\* whether it goes through httpclient.Client (which retries an idempotent
\* request answered with a retriable status and then returns its own error).
FriendlySites ==
    {[provider |-> "Rootz", wraps |-> <<>>,
      text |-> "upload failed with status", method |-> "POST", client |-> TRUE],
     [provider |-> "Rootz", wraps |-> <<"init failed">>,
      text |-> "request failed with status", method |-> "POST", client |-> TRUE],
     [provider |-> "Rootz", wraps |-> <<"failed to get URLs">>,
      text |-> "request failed with status", method |-> "POST", client |-> TRUE],
     [provider |-> "Rootz",
      wraps |-> <<"upload parts failed", "failed to upload part">>,
      text |-> "upload failed with status", method |-> "PUT", client |-> TRUE],
     [provider |-> "Rootz", wraps |-> <<"complete failed">>,
      text |-> "request failed with status", method |-> "POST", client |-> TRUE],
     [provider |-> "AkiraBox", wraps |-> <<"start upload failed">>,
      text |-> "start upload failed with status", method |-> "POST",
      client |-> FALSE],
     [provider |-> "AkiraBox",
      wraps |-> <<"upload parts failed", "failed to get URL for part">>,
      text |-> "get chunk URL failed with status", method |-> "GET",
      client |-> FALSE],
     [provider |-> "AkiraBox",
      wraps |-> <<"upload parts failed", "failed to upload part">>,
      text |-> "upload failed with status", method |-> "PUT", client |-> FALSE],
     [provider |-> "AkiraBox", wraps |-> <<"complete upload failed">>,
      text |-> "complete upload failed with status", method |-> "POST",
      client |-> FALSE],
     [provider |-> "FileKeeper", wraps |-> <<"failed to get upload server">>,
      text |-> "get upload server failed with status", method |-> "GET",
      client |-> FALSE],
     [provider |-> "FileKeeper", wraps |-> <<"failed to upload file">>,
      text |-> "upload failed with status", method |-> "POST", client |-> FALSE],
     [provider |-> "DataVaults", wraps |-> <<>>,
      text |-> "DataVaults server returned error", method |-> "POST",
      client |-> TRUE]}

\* fmt.Errorf("<text>: %w", err), once for each text
RECURSIVE WrapAll(_, _)
WrapAll(ids, e) ==
    IF ids = <<>> THEN e ELSE Wrap(Head(ids), WrapAll(Tail(ids), e))

\* the error Upload returns when the request of site is answered with s
StatusError(site, s) ==
    WrapAll(site.wraps,
            IF site.client /\ isIdempotent(site.method) /\ isRetriableStatusCode(s)
            THEN AfterRetries(DefaultMaxRetries, RetriableStatusErr(s))
            ELSE IF site.provider = "DataVaults" THEN ErrServerReturned(s)
            ELSE ErrWithStatus(site.text, s))

\* the errors of a cancelled upload: the check between two parts, the check
\* after FileKeeper's POST, and the request that a cancelled context ends
CancelErrors ==
    {Wrap("upload parts failed", ErrUploadCancelled),
     Wrap("failed to upload file", ErrUploadCancelled),
     ErrUploadCancelled,
     TransportErr("canceled"),
     Wrap("failed to get upload server", TransportErr("canceled")),
     Wrap("init failed", CtxCanceled)}

\* errors that are of none of the categories of errors.go
OtherErrors ==
    {ErrEmptyResponse,
     Wrap("complete upload failed",
          MsgErr("download_link not found in response", {"not found"})),
     MsgErr("simulated upload error at 50%", {})}

\* the errors handed to MakeFriendly, each with what it is
FriendlyInputs ==
    {[case |-> "status", site |-> site, status |-> s, err |-> StatusError(site, s)] :
        site \in FriendlySites, s \in FriendlyStatuses}
    \cup {[case |-> "cancel", err |-> e] : e \in CancelErrors}
    \cup {[case |-> "other", err |-> e] : e \in OtherErrors}

FriendlyNone == [pc |-> "idle"]

\* showFriendlyError(err): MakeFriendly classifies the error and makes the
\* dialog's title
FriendlyCall ==
    /\ friendly.pc = "idle"
    /\ \E in \in FriendlyInputs :
          friendly' = [pc |-> "done", in |-> in,
                       type |-> classifyError(in.err),
                       title |-> MakeFriendly(in.err)]
    /\ UNCHANGED <<ctlVars, libVars, prefs, shared, body, sess, send>>
    /\ UNCHANGED <<fields, release, emitted, helpers>>

\* the dialog is closed
FriendlyTaken ==
    /\ friendly.pc = "done"
    /\ friendly' = FriendlyNone
    /\ UNCHANGED <<ctlVars, libVars, prefs, shared, body, sess, send>>
    /\ UNCHANGED <<fields, release, emitted, helpers>>

(***************************************************************************)
(* unnamed/part_005 (package updater): CheckForUpdates, CompareVersions    *)
(* and parseVersion.  A version text is its parts between the dots, each   *)
(* a number or a text strconv.Atoi refuses ("2-beta"), with or without a   *)
(* leading "v".                                                            *)
(***************************************************************************)
\* the parts of a version text: the numbers 0 and 1 and a text that is not
\* a number
VersionParts == {[ok |-> TRUE, n |-> 0], [ok |-> TRUE, n |-> 1],
                 [ok |-> FALSE, n |-> 0]}

VersionTexts ==
    {[v |-> v, parts |-> p] :
        v \in BOOLEAN,
        p \in [1..2 -> VersionParts] \cup [1..3 -> VersionParts]}

\* strings.TrimPrefix(version, "v")
TrimPrefixV(version) == [version EXCEPT !.v = FALSE]

\* parseVersion(version): the parts that are numbers, 0 for the others and
\* for those that are missing; a "v" left in front spoils the first part
parseVersion(version) ==
    [i \in 1..3 |->
        IF i > Len(version.parts) THEN 0
        ELSE IF i = 1 /\ version.v THEN 0
        ELSE IF version.parts[i].ok THEN version.parts[i].n
        ELSE 0]

\* CompareVersions(currentVersion, newVersion)
CompareVersions(currentVersion, newVersion) ==
    LET current == parseVersion(TrimPrefixV(currentVersion))
        new == parseVersion(TrimPrefixV(newVersion))
    IN  IF new[1] > current[1] THEN 1
        ELSE IF new[1] < current[1] THEN -1
        ELSE IF new[2] > current[2] THEN 1
        ELSE IF new[2] < current[2] THEN -1
        ELSE IF new[3] > current[3] THEN 1
        ELSE IF new[3] < current[3] THEN -1
        ELSE 0

\* what CheckForUpdates returns once GitHub has answered with the release
\* tagged tagName: the release or nil
CheckForUpdates(currentVersion, tagName) ==
    LET latestVersion == TrimPrefixV(tagName)
    IN  IF CompareVersions(currentVersion, latestVersion) < 0
        THEN "release"
        ELSE "nil"

ReleaseNone == [pc |-> "idle"]

\* the app asks for updates and GitHub answers with its latest release
ReleaseCheck ==
    /\ release.pc = "idle"
    /\ \E currentVersion \in {t \in VersionTexts : ~t.v},
          tagName \in VersionTexts :
          release' = [pc |-> "done",
                      currentVersion |-> currentVersion,
                      tagName |-> tagName,
                      cmp |-> CompareVersions(currentVersion, tagName),
                      ret |-> CheckForUpdates(currentVersion, tagName)]
    /\ UNCHANGED <<ctlVars, libVars, prefs, shared, body, sess, send>>
    /\ UNCHANGED <<fields, friendly, emitted, helpers>>

\* the request fails, is answered with another status than 200, or with a
\* body that is not JSON: an error and no release
ReleaseFails ==
    /\ release.pc = "idle"
    /\ \E why \in {"fetch", "status", "parse"} :
          release' = [pc |-> "failed", why |-> why]
    /\ UNCHANGED <<ctlVars, libVars, prefs, shared, body, sess, send>>
    /\ UNCHANGED <<fields, friendly, emitted, helpers>>

\* the caller has the answer
ReleaseTaken ==
    /\ release.pc \in {"done", "failed"}
    /\ release' = ReleaseNone
    /\ UNCHANGED <<ctlVars, libVars, prefs, shared, body, sess, send>>
    /\ UNCHANGED <<fields, friendly, emitted, helpers>>

(***************************************************************************)
(* The UploadProgress values a provider emits during one Upload.  Sizes    *)
(* are in blocks of 2 MiB, and the file holds fileSize blocks.  A read of  *)
(* a block or more always passes the 512 KiB test of the chunked           *)
(* providers' callback.                                                    *)
(***************************************************************************)
\* the blocks io.LimitReader(file, partSize) delivers once the file is
\* positioned at start
PartBytesUnlimited(start, partSize, fileSize) ==
    IF fileSize - start > 0 THEN fileSize - start ELSE 0

PartBytes(start, partSize, fileSize) ==
    IF Min(partSize, fileSize - start) > 0
    THEN Min(partSize, fileSize - start)
    ELSE 0

\* int(float64(*totalUploaded) / float64(fileSize) * 100); a division by
\* zero gives no percentage at all, written -1
CallbackPercentage(totalUploaded, fileSize) ==
    IF fileSize = 0 THEN -1 ELSE (totalUploaded * 100) \div fileSize

\* the percentage of the progress tickers of FileKeeper and DataVaults and
\* of MockProvider: 0 for an empty file (MockProvider has no tick then),
\* and never more than 100
TickerPercentage(fs, fileSize) ==
    IF fileSize > 0 THEN Min((fs * 100) \div fileSize, 100) ELSE 0

UploadProgress(bytesUploaded, totalBytes, percentage) ==
    [BytesUploaded |-> bytesUploaded, TotalBytes |-> totalBytes,
     Percentage |-> percentage]

\* any tells whether progress holds a value the provider emitted, the
\* last one
EmittedNone ==
    [pc |-> "idle", provider |-> "Mock", path |-> "none", fileSize |-> 0,
     chunkSize |-> 0, totalParts |-> 0, partNum |-> 0, left |-> 0,
     totalUploaded |-> 0, any |-> FALSE, progress |-> UploadProgress(0, 0, 0)]

\* the value goes on the progress channel
Emit(e, upd) == [e EXCEPT !.any = TRUE, !.progress = upd]

\* Upload is called; a chunked upload takes chunkSize and totalParts from
\* the server's answer, a session-POST upload starts its writer goroutine,
\* which reads the file to its end
EmitUpload ==
    /\ emitted.pc = "idle"
    /\ \E provider \in SendProviders, fileSize \in 0..MaxFileSize,
          chunkSize \in 0..MaxChunkSize, totalParts \in 0..MaxParts :
          LET path == CASE provider = "Rootz" -> RootzPath(fileSize)
                        [] provider = "AkiraBox" -> "large"
                        [] provider \in TickerProviders -> "pipe"
                        [] OTHER -> "ticker"
          IN  /\ path # "large" => chunkSize = 0 /\ totalParts = 0
              /\ emitted' = [EmittedNone EXCEPT
                                !.pc = "run",
                                !.provider = provider,
                                !.path = path,
                                !.fileSize = fileSize,
                                !.chunkSize = chunkSize,
                                !.totalParts = totalParts,
                                !.left = IF path = "pipe" THEN fileSize ELSE 0]
    /\ UNCHANGED <<ctlVars, libVars, prefs, shared, body, sess, send>>
    /\ UNCHANGED <<fields, friendly, release, helpers>>

\* uploadParts: the next part is cut and the file positioned at its start
EmitPart ==
    /\ emitted.pc = "run"
    /\ emitted.path = "large"
    /\ emitted.left = 0
    /\ emitted.partNum < emitted.totalParts
    /\ LET partNum == emitted.partNum + 1
           start == PartStart(partNum, emitted.chunkSize)
           partSize == PartSize(partNum, emitted.chunkSize, emitted.fileSize)
       IN  emitted' = [emitted EXCEPT
                          !.partNum = partNum,
                          !.left = PartBytes(start, partSize, emitted.fileSize)]
    /\ UNCHANGED <<ctlVars, libVars, prefs, shared, body, sess, send>>
    /\ UNCHANGED <<fields, friendly, release, helpers>>

\* the transport reads n blocks of the part through progressReader:
\* onProgress adds them and sends an update, which a full channel drops
EmitCallback ==
    /\ emitted.pc = "run"
    /\ emitted.path = "large"
    /\ emitted.left > 0
    /\ \E n \in 1..Min(emitted.left, MaxRead), dropped \in BOOLEAN :
          LET totalUploaded == emitted.totalUploaded + n
              e == [emitted EXCEPT !.left = @ - n,
                                   !.totalUploaded = totalUploaded]
          IN  emitted' =
                 IF dropped THEN e
                 ELSE Emit(e, UploadProgress(
                                 totalUploaded, emitted.fileSize,
                                 CallbackPercentage(totalUploaded,
                                                    emitted.fileSize)))
    /\ UNCHANGED <<ctlVars, libVars, prefs, shared, body, sess, send>>
    /\ UNCHANGED <<fields, friendly, release, helpers>>

\* the writer goroutine of FileKeeper and DataVaults copies n blocks of the
\* file through CountingReader, which adds them to fileSent
EmitCopy ==
    /\ emitted.pc = "run"
    /\ emitted.path = "pipe"
    /\ emitted.left > 0
    /\ \E n \in 1..Min(emitted.left, MaxRead) :
          emitted' = [emitted EXCEPT !.left = @ - n, !.totalUploaded = @ + n]
    /\ UNCHANGED <<ctlVars, libVars, prefs, shared, body, sess, send>>
    /\ UNCHANGED <<fields, friendly, release, helpers>>

\* the progress goroutine of FileKeeper and DataVaults on a tick
EmitTick ==
    /\ emitted.pc = "run"
    /\ emitted.path = "pipe"
    /\ LET fs == emitted.totalUploaded
       IN  emitted' = Emit(emitted,
                           UploadProgress(fs, emitted.fileSize,
                                          TickerPercentage(fs, emitted.fileSize)))
    /\ UNCHANGED <<ctlVars, libVars, prefs, shared, body, sess, send>>
    /\ UNCHANGED <<fields, friendly, release, helpers>>

\* MockProvider on a tick: what should be uploaded by now, at most the
\* file's size
EmitMockTick ==
    /\ emitted.pc = "run"
    /\ emitted.provider = "Mock"
    /\ emitted.totalUploaded < emitted.fileSize
    /\ \E expectedUploaded \in emitted.totalUploaded..emitted.fileSize :
          emitted' = Emit([emitted EXCEPT !.totalUploaded = expectedUploaded],
                          UploadProgress(
                              expectedUploaded, emitted.fileSize,
                              TickerPercentage(expectedUploaded,
                                               emitted.fileSize)))
    /\ UNCHANGED <<ctlVars, libVars, prefs, shared, body, sess, send>>
    /\ UNCHANGED <<fields, friendly, release, helpers>>

\* Upload returns a result: Rootz's small path and MockProvider send a
\* final update first, the others have sent theirs
EmitReturn ==
    /\ emitted.pc = "run"
    /\ CASE emitted.path = "large" ->
              emitted.left = 0 /\ emitted.partNum = emitted.totalParts
         [] emitted.path = "pipe" -> emitted.left = 0
         [] emitted.provider = "Mock" ->
              emitted.totalUploaded >= emitted.fileSize
         [] OTHER -> TRUE
    /\ emitted' =
          [(IF emitted.path \in {"small", "ticker"}
            THEN Emit(emitted, UploadProgress(emitted.fileSize,
                                              emitted.fileSize, 100))
            ELSE emitted)
           EXCEPT !.pc = "returned"]
    /\ UNCHANGED <<ctlVars, libVars, prefs, shared, body, sess, send>>
    /\ UNCHANGED <<fields, friendly, release, helpers>>

\* Upload returns an error: a request failed or the upload was cancelled
EmitFail ==
    /\ emitted.pc = "run"
    /\ emitted' = [emitted EXCEPT !.pc = "returned"]
    /\ UNCHANGED <<ctlVars, libVars, prefs, shared, body, sess, send>>
    /\ UNCHANGED <<fields, friendly, release, helpers>>

\* the caller has the result
EmitTaken ==
    /\ emitted.pc = "returned"
    /\ emitted' = EmittedNone
    /\ UNCHANGED <<ctlVars, libVars, prefs, shared, body, sess, send>>
    /\ UNCHANGED <<fields, friendly, release, helpers>>

(***************************************************************************)
(* The helper goroutines of a session-POST provider (FileKeeper's          *)
(* uploadFile, DataVaults' Upload): the goroutine that writes the multipart *)
(* body into a pipe the request reads from, and the goroutine that reports *)
(* the bytes sent at every tick.  A write into the pipe waits for the      *)
(* reader to take it and fails once either end is closed; the request      *)
(* reads the pipe while Do runs.  SpecHelpersFair follows one upload with  *)
(* both goroutines, the caller's receiver and the caller's close of the    *)
(* progress channel.                                                       *)
(***************************************************************************)
\* pc is Upload's position, writer and prog the goroutines'; remaining the
\* blocks of the file not yet copied; pipe the ends of the pipe that are
\* closed; tick whether ticker.C holds a tick; stop whether stopProgress is
\* closed; ctx whether the context is cancelled; chan the updates in the
\* progress channel and closed whether the caller has closed it; atReturn
\* the goroutines' positions when Upload returned
HelpersNone ==
    [pc |-> "idle", provider |-> "FileKeeper", writer |-> "none",
     remaining |-> 0, pipe |-> [r |-> FALSE, w |-> FALSE], prog |-> "none",
     tick |-> FALSE, stop |-> FALSE, ctx |-> FALSE, chan |-> 0,
     closed |-> FALSE, ret |-> "none",
     atReturn |-> [writer |-> "none", prog |-> "none"]]

\* a write into the pipe returns io.ErrClosedPipe
PipeClosed(h) == h.pipe.r \/ h.pipe.w

\* the request is reading the pipe
PipeRead(h) == h.pc = "do" /\ ~PipeClosed(h)

PipeRKeep(pipe) == pipe

\* _ = pipeR.Close()
PipeRClose(pipe) == [pipe EXCEPT !.r = TRUE]

\* the goroutine has returned, or has panicked
WriterOver(h) == h.writer \in {"none", "done"}

ProgressOver(h) == h.prog \in {"none", "done", "panic"}

\* Upload is called.  A failure of the session stage returns before any
\* goroutine is started; otherwise the pipe is made and the writer started
HelpUpload ==
    /\ helpers.pc = "idle"
    /\ \E provider \in SessionProviders, fileSize \in 0..MaxFileSize,
          sessOK \in BOOLEAN :
          helpers' = IF sessOK
                     THEN [HelpersNone EXCEPT !.pc = "request",
                                              !.provider = provider,
                                              !.writer = "fields",
                                              !.remaining = fileSize]
                     ELSE [HelpersNone EXCEPT !.pc = "returned",
                                              !.provider = provider,
                                              !.ret = "error"]
    /\ UNCHANGED <<ctlVars, libVars, prefs, shared, body, sess, send>>
    /\ UNCHANGED <<fields, friendly, release, emitted>>

\* http.NewRequestWithContext: on an error both ends of the pipe are closed
\* and Upload returns; otherwise stopProgress is made, its close deferred,
\* the progress goroutine started and Do called
HelpNewRequest ==
    /\ helpers.pc = "request"
    /\ \E ok \in BOOLEAN :
          helpers' = IF ok
                     THEN [helpers EXCEPT !.pc = "do", !.prog = "select"]
                     ELSE [helpers EXCEPT !.pc = "returned", !.ret = "error",
                                          !.pipe = [r |-> TRUE, w |-> TRUE],
                                          !.atReturn = [writer |-> helpers.writer,
                                                        prog |-> helpers.prog]]
    /\ UNCHANGED <<ctlVars, libVars, prefs, shared, body, sess, send>>
    /\ UNCHANGED <<fields, friendly, release, emitted>>

\* the writer: the text fields and the file's header are taken by the reader
HelpWriteField ==
    /\ helpers.writer = "fields"
    /\ PipeRead(helpers)
    /\ helpers' = [helpers EXCEPT !.writer = "copy"]
    /\ UNCHANGED <<ctlVars, libVars, prefs, shared, body, sess, send>>
    /\ UNCHANGED <<fields, friendly, release, emitted>>

\* the writer, in io.Copy: a block of the file is read and taken by the
\* reader
HelpCopy ==
    /\ helpers.writer = "copy"
    /\ helpers.remaining > 0
    /\ PipeRead(helpers)
    /\ helpers' = [helpers EXCEPT !.remaining = @ - 1]
    /\ UNCHANGED <<ctlVars, libVars, prefs, shared, body, sess, send>>
    /\ UNCHANGED <<fields, friendly, release, emitted>>

\* the writer, in io.Copy: the file is at its end, io.Copy returns nil and
\* the deferred function runs
HelpCopyEOF ==
    /\ helpers.writer = "copy"
    /\ helpers.remaining = 0
    /\ helpers' = [helpers EXCEPT !.writer = "trailer"]
    /\ UNCHANGED <<ctlVars, libVars, prefs, shared, body, sess, send>>
    /\ UNCHANGED <<fields, friendly, release, emitted>>

\* the writer, in io.Copy: the read of the file fails; CloseWithError, and
\* the deferred mw.Close and pipeW.Close, which return at once on a closed
\* pipe
HelpReadFails ==
    /\ helpers.writer = "copy"
    /\ helpers.remaining > 0
    /\ helpers' = [helpers EXCEPT !.writer = "done", !.pipe.w = TRUE]
    /\ UNCHANGED <<ctlVars, libVars, prefs, shared, body, sess, send>>
    /\ UNCHANGED <<fields, friendly, release, emitted>>

\* the writer: a write into the closed pipe fails; CloseWithError where the
\* code has it, then the deferred mw.Close and pipeW.Close
HelpWriteClosed ==
    /\ \/ helpers.writer \in {"fields", "trailer"}
       \/ helpers.writer = "copy" /\ helpers.remaining > 0
    /\ PipeClosed(helpers)
    /\ helpers' = [helpers EXCEPT !.writer = "done", !.pipe.w = TRUE]
    /\ UNCHANGED <<ctlVars, libVars, prefs, shared, body, sess, send>>
    /\ UNCHANGED <<fields, friendly, release, emitted>>

\* the writer's deferred function: mw.Close writes the closing boundary,
\* which the reader takes, and pipeW.Close closes the pipe
HelpTrailer ==
    /\ helpers.writer = "trailer"
    /\ PipeRead(helpers)
    /\ helpers' = [helpers EXCEPT !.writer = "done", !.pipe.w = TRUE]
    /\ UNCHANGED <<ctlVars, libVars, prefs, shared, body, sess, send>>
    /\ UNCHANGED <<fields, friendly, release, emitted>>

\* the caller cancels the context
HelpCancel ==
    /\ helpers.pc \in {"request", "do", "closing"}
    /\ ~helpers.ctx
    /\ helpers' = [helpers EXCEPT !.ctx = TRUE]
    /\ UNCHANGED <<ctlVars, libVars, prefs, shared, body, sess, send>>
    /\ UNCHANGED <<fields, friendly, release, emitted>>

\* Do returns, with a response or an error, whatever the writer has written
\* by then, and the reading end of the pipe is closed
HelpDoReturn ==
    /\ helpers.pc = "do"
    /\ \E out \in {"ok", "status", "error"}
                     \cup (IF helpers.ctx THEN {"cancelled"} ELSE {}) :
          helpers' = [helpers EXCEPT !.pc = "closing", !.ret = out,
                                     !.pipe = PipeRClose(helpers.pipe)]
    /\ UNCHANGED <<ctlVars, libVars, prefs, shared, body, sess, send>>
    /\ UNCHANGED <<fields, friendly, release, emitted>>

\* Upload returns: the error, the status, or what the decoding of the
\* response gives; the deferred close(stopProgress) runs
HelpReturn ==
    /\ helpers.pc = "closing"
    /\ \E decodeOK \in BOOLEAN :
          helpers' = [helpers EXCEPT
                         !.pc = "returned",
                         !.ret = IF helpers.ret = "ok" /\ ~decodeOK
                                 THEN "error" ELSE @,
                         !.stop = TRUE,
                         !.atReturn = [writer |-> helpers.writer,
                                       prog |-> helpers.prog]]
    /\ UNCHANGED <<ctlVars, libVars, prefs, shared, body, sess, send>>
    /\ UNCHANGED <<fields, friendly, release, emitted>>

\* the interval of the ticker has passed: ticker.C, of capacity 1, holds a
\* tick
HelpTickerFires ==
    /\ helpers.prog \in {"select", "inner"}
    /\ ~helpers.tick
    /\ helpers' = [helpers EXCEPT !.tick = TRUE]
    /\ UNCHANGED <<ctlVars, libVars, prefs, shared, body, sess, send>>
    /\ UNCHANGED <<fields, friendly, release, emitted>>

\* the progress goroutine's outer select takes the tick and builds the
\* update
HelpTick ==
    /\ helpers.prog = "select"
    /\ helpers.tick
    /\ helpers' = [helpers EXCEPT !.prog = "inner", !.tick = FALSE]
    /\ UNCHANGED <<ctlVars, libVars, prefs, shared, body, sess, send>>
    /\ UNCHANGED <<fields, friendly, release, emitted>>

\* either select takes <-ctx.Done() or <-stopProgress: the goroutine
\* returns, and the deferred ticker.Stop runs
HelpStop ==
    /\ helpers.prog \in {"select", "inner"}
    /\ helpers.stop \/ helpers.ctx
    /\ helpers' = [helpers EXCEPT !.prog = "done", !.tick = FALSE]
    /\ UNCHANGED <<ctlVars, libVars, prefs, shared, body, sess, send>>
    /\ UNCHANGED <<fields, friendly, release, emitted>>

\* the inner select takes the send: the update goes into the channel, or,
\* the channel being closed, the send panics
HelpSend ==
    /\ helpers.prog = "inner"
    /\ helpers.closed \/ helpers.chan < MaxChanCap
    /\ helpers' = IF helpers.closed
                  THEN [helpers EXCEPT !.prog = "panic"]
                  ELSE [helpers EXCEPT !.prog = "select", !.chan = @ + 1]
    /\ UNCHANGED <<ctlVars, libVars, prefs, shared, body, sess, send>>
    /\ UNCHANGED <<fields, friendly, release, emitted>>

\* the caller's trackProgress receives an update
HelpReceive ==
    /\ helpers.chan > 0
    /\ helpers' = [helpers EXCEPT !.chan = @ - 1]
    /\ UNCHANGED <<ctlVars, libVars, prefs, shared, body, sess, send>>
    /\ UNCHANGED <<fields, friendly, release, emitted>>

\* the caller's transfer goroutine, Upload having returned, runs its
\* deferred close(progressChan)
HelpCallerClose ==
    /\ helpers.pc = "returned"
    /\ ~helpers.closed
    /\ helpers' = [helpers EXCEPT !.closed = TRUE]
    /\ UNCHANGED <<ctlVars, libVars, prefs, shared, body, sess, send>>
    /\ UNCHANGED <<fields, friendly, release, emitted>>

\* the upload is over and both goroutines with it
HelpTaken ==
    /\ helpers.pc = "returned"
    /\ WriterOver(helpers)
    /\ ProgressOver(helpers)
    /\ helpers.closed
    /\ helpers.chan = 0
    /\ helpers' = HelpersNone
    /\ UNCHANGED <<ctlVars, libVars, prefs, shared, body, sess, send>>
    /\ UNCHANGED <<fields, friendly, release, emitted>>

(***************************************************************************)
(* The helpers at rest.                                                    *)
(***************************************************************************)
LibIdle ==
    /\ parts = PartsNone
    /\ counter = CounterNone
    /\ stream = StreamNone
    /\ calc = CalcNone
    /\ eta = EtaNone
    /\ prefs = PrefsNone
    /\ shared = SharedNone
    /\ body = BodyNone
    /\ sess = SessNone
    /\ send = SendNone
    /\ fields = FieldsNone
    /\ friendly = FriendlyNone
    /\ release = ReleaseNone
    /\ emitted = EmittedNone
    /\ helpers = HelpersNone

(***************************************************************************)
(* The upload tab.  SpecTab follows the tab through its uploads, one after *)
(* the other, with the goroutines that read and write the fields the       *)
(* handlers use (the progress goroutines, which touch latestProgress and    *)
(* the progress channel only, are left waiting).  SpecUpload follows one    *)
(* upload with all its goroutines.                                         *)
(***************************************************************************)
Init ==
    /\ do = DoIdle
    /\ ctxDone = {}
    /\ tab = TabInit
    /\ gen = 0
    /\ up = [g \in Uploads |-> UpNone]
    /\ panicked = FALSE
    /\ LibIdle

NextTab ==
    \/ OnUpload
    \/ CallOperation
    \/ CallAttempt
    \/ CallWait
    \/ CallSingle
    \/ SessionReturn
    \/ PostReturn
    \/ TransferSend
    \/ TransferDefers
    \/ UISelect
    \/ UICancelUpload
    \/ UILatestProgress
    \/ DismissDialog

SpecTab == Init /\ [][NextTab]_vars

\* the user starts one upload
OnUploadOnce == OnUpload /\ gen' <= 1

NextUpload ==
    \/ OnUploadOnce
    \/ CallOperation
    \/ CallAttempt
    \/ CallWait
    \/ CallSingle
    \/ SessionReturn
    \/ PostReturn
    \/ ProgressTick
    \/ ProgressSend
    \/ TransferSend
    \/ TransferDefers
    \/ TrackReceive
    \/ TrackStore
    \/ UISelect
    \/ UICancelUpload
    \/ UILatestProgress
    \/ DismissDialog

SpecUpload == Init /\ [][NextUpload]_vars

\* updateUIFromProgress takes the completion that waits in the result channel
UIResult ==
    /\ ~panicked
    /\ \E g \in Uploads :
          /\ up[g].ui = "select"
          /\ "result" \in UIReady
          /\ UIReceive(g)
    /\ UNCHANGED <<do, ctxDone, gen, panicked>>
    /\ UNCHANGED <<libVars, auxVars>>

\* One upload under the scheduler: every goroutine that can take a step
\* takes one, every network call returns, and the ticker, whose tick is not
\* always ready, takes a completion that waits.  The user's actions are
\* under no obligation.
SpecUploadFair ==
    /\ SpecUpload
    /\ WF_vars(CallOperation)
    /\ WF_vars(CallAttempt)
    /\ WF_vars(CallWait)
    /\ WF_vars(CallSingle)
    /\ WF_vars(SessionReturn)
    /\ WF_vars(PostReturn)
    /\ WF_vars(ProgressTick)
    /\ WF_vars(ProgressSend)
    /\ WF_vars(TransferSend)
    /\ WF_vars(TransferDefers)
    /\ WF_vars(TrackReceive)
    /\ WF_vars(TrackStore)
    /\ WF_vars(UIResult)
    /\ WF_vars(UICancelUpload)
    /\ WF_vars(UILatestProgress)

(***************************************************************************)
(* A chunked upload on its own.                                            *)
(***************************************************************************)
NextParts ==
    \/ PartsUpload
    \/ PartsOperation
    \/ PartsAttempt
    \/ PartsWait
    \/ PartsSingle
    \/ PartsSmallReturn
    \/ PartsStartReturn
    \/ PartsUrlsReturn
    \/ PartsCheck
    \/ PartsPart
    \/ PartsChunkURLReturn
    \/ PartsPutReturn
    \/ PartsCompleteReturn
    \/ PartsCancel

SpecParts == Init /\ [][NextParts]_vars

(***************************************************************************)
(* The helpers on their own.                                               *)
(***************************************************************************)
NextCounter ==
    \/ CounterGo
    \/ CounterAdd
    \/ CounterN

SpecCounter == Init /\ [][NextCounter]_vars

NextStream ==
    \/ StreamNew
    \/ StreamCall

SpecStream == Init /\ [][NextStream]_vars

NextCalc ==
    \/ CalcNew
    \/ CalcTick
    \/ CalcUpdate
    \/ CalcReset

SpecCalc == Init /\ [][NextCalc]_vars

NextPrefs ==
    \/ PrefsNewManager
    \/ PrefsSetProvider
    \/ PrefsSetGlobal
    \/ PrefsGet

SpecPrefs == Init /\ [][NextPrefs]_vars

NextShared ==
    \/ SharedCall
    \/ SharedOnce
    \/ SharedConstruct
    \/ SharedReturn

SpecShared == Init /\ [][NextShared]_vars

NextSend ==
    \/ SendUpload
    \/ SendSite
    \/ SendUnblock
    \/ SendReceive
    \/ SendTick
    \/ SendTickEnd
    \/ SendReturn
    \/ SendCancel

SpecSend == Init /\ [][NextSend]_vars

NextBody ==
    \/ BodyRequest
    \/ BodyOperation
    \/ BodyAttempt
    \/ BodyWait
    \/ BodyReturn

SpecBody == Init /\ [][NextBody]_vars

NextSession ==
    \/ SessUpload
    \/ SessOperation
    \/ SessAttempt
    \/ SessWait
    \/ SessSessionReturn
    \/ SessPostReturn
    \/ SessCancel

SpecSession == Init /\ [][NextSession]_vars

NextFields ==
    \/ FldOnUpload
    \/ FldCancelCall
    \/ FldStartUpload
    \/ FldStartUploadFails
    \/ FldTotalSize
    \/ FldGo
    \/ FldEmit
    \/ FldUploadReturn
    \/ FldTrackReceive
    \/ FldTrackStore
    \/ FldTick
    \/ FldReceive
    \/ FldIsUploading
    \/ FldCancelUpload
    \/ FldLatestProgress
    \/ FldFinish

SpecFields == Init /\ [][NextFields]_vars

NextFriendly ==
    \/ FriendlyCall
    \/ FriendlyTaken

SpecFriendly == Init /\ [][NextFriendly]_vars

NextRelease ==
    \/ ReleaseCheck
    \/ ReleaseFails
    \/ ReleaseTaken

SpecRelease == Init /\ [][NextRelease]_vars

NextEmitted ==
    \/ EmitUpload
    \/ EmitPart
    \/ EmitCallback
    \/ EmitCopy
    \/ EmitTick
    \/ EmitMockTick
    \/ EmitReturn
    \/ EmitFail
    \/ EmitTaken

SpecEmitted == Init /\ [][NextEmitted]_vars

NextHelpers ==
    \/ HelpUpload
    \/ HelpNewRequest
    \/ HelpWriteField
    \/ HelpCopy
    \/ HelpCopyEOF
    \/ HelpReadFails
    \/ HelpWriteClosed
    \/ HelpTrailer
    \/ HelpCancel
    \/ HelpDoReturn
    \/ HelpReturn
    \/ HelpTickerFires
    \/ HelpTick
    \/ HelpStop
    \/ HelpSend
    \/ HelpReceive
    \/ HelpCallerClose
    \/ HelpTaken

SpecHelpers == Init /\ [][NextHelpers]_vars

\* The helpers under the scheduler: a goroutine that can run does.  The
\* writer's failed write and its end of file need no one else; a select
\* with a closed channel among its cases takes that case sooner or later,
\* since it chooses among the ready cases at random.  The network, the
\* reader, the ticker and the caller are under no obligation.
SpecHelpersFair ==
    /\ SpecHelpers
    /\ WF_vars(HelpWriteClosed)
    /\ WF_vars(HelpCopyEOF)
    /\ WF_vars(HelpStop)

NextEta ==
    \/ EtaCall
    \/ EtaTaken

SpecEta == Init /\ [][NextEta]_vars

(***************************************************************************)
(* The transport on its own: any caller, any method, any configuration.    *)
(***************************************************************************)
DoCall ==
    /\ do.pc = "idle"
    /\ \E m \in Methods, c \in ClientConfigs : do' = DoEnter(m, c, 1)
    /\ UNCHANGED <<ctxDone, tab, gen, up, panicked>>
    /\ UNCHANGED <<libVars, auxVars>>

DoSingle ==
    /\ do.pc = "single"
    /\ \E o \in PossibleOutcomes(do.ctx, ctxDone, Outcomes) : do' = DoSingleStep(do, o)
    /\ UNCHANGED <<ctxDone, tab, gen, up, panicked>>
    /\ UNCHANGED <<libVars, auxVars>>

DoOperation ==
    /\ do.pc = "operation"
    /\ do' = DoOperationStep(do, ctxDone)
    /\ UNCHANGED <<ctxDone, tab, gen, up, panicked>>
    /\ UNCHANGED <<libVars, auxVars>>

DoAttempt ==
    /\ do.pc = "inflight"
    /\ \E o \in PossibleOutcomes(do.ctx, ctxDone, Outcomes), dur \in {0, do.cfg.Timeout} :
          do' = DoAttemptStep(do, o, dur)
    /\ UNCHANGED <<ctxDone, tab, gen, up, panicked>>
    /\ UNCHANGED <<libVars, auxVars>>

DoWait ==
    /\ do.pc = "backoff"
    /\ do' = DoWaitStep(do)
    /\ UNCHANGED <<ctxDone, tab, gen, up, panicked>>
    /\ UNCHANGED <<libVars, auxVars>>

\* the caller cancels the request's context while Do runs
DoCancel ==
    /\ do.pc \in {"single", "operation", "inflight", "backoff"}
    /\ do.ctx \notin ctxDone
    /\ ctxDone' = ctxDone \cup {do.ctx}
    /\ UNCHANGED <<do, tab, gen, up, panicked>>
    /\ UNCHANGED <<libVars, auxVars>>

\* the caller takes the result; the next request has a fresh context
DoTaken ==
    /\ do.pc = "returned"
    /\ do' = DoIdle
    /\ ctxDone' = {}
    /\ UNCHANGED <<tab, gen, up, panicked>>
    /\ UNCHANGED <<libVars, auxVars>>

InitDo ==
    /\ do = DoIdle
    /\ ctxDone = {}
    /\ tab = TabInit
    /\ gen = 0
    /\ up = [g \in Uploads |-> UpNone]
    /\ panicked = FALSE
    /\ LibIdle

NextDo ==
    \/ DoCall
    \/ DoSingle
    \/ DoOperation
    \/ DoAttempt
    \/ DoWait
    \/ DoCancel
    \/ DoTaken

SpecDo == InitDo /\ [][NextDo]_vars

(***************************************************************************)
(* Claims about the transport, checked under SpecDo.                       *)
(***************************************************************************)
IdempotentMethods == {"GET", "HEAD", "PUT", "DELETE", "OPTIONS", "TRACE"}

RetriableStatuses == {408, 429, 500, 502, 503, 504}

\* the n-th backoff interval: 500ms doubled n-1 times, at most 30s
BackoffInterval(n) == Min(InitialInterval * (2 ^ (n - 1)), MaxInterval)

\* Do stopped because the retries, the elapsed-time ceiling or the context
\* allowed no further attempt
BudgetSpent ==
    \/ do.attempts = do.cfg.MaxRetries + 1
    \/ do.elapsed + BackoffInterval(do.attempts) > do.cfg.MaxElapsed
    \/ do.ctx \in ctxDone

\* the error the most recent attempt ended with
LastAttemptErr ==
    IF do.lastOutcome.err # NoErr THEN do.lastOutcome.err
    ELSE RetriableStatusErr(do.lastOutcome.resp)

\* C4: a request whose method is outside GET, HEAD, PUT, DELETE, OPTIONS,
\* TRACE (POST, PATCH) is attempted exactly once, whatever the outcome of
\* that attempt, and Do returns that outcome unchanged, with no backoff wait.
C4_NonIdempotentOnce ==
    (do.method \notin IdempotentMethods /\ do.pc # "idle") =>
        /\ do.attempts = 1
        /\ do.waits = 0
        /\ do.pc \in {"single", "returned"}
        /\ (do.pc = "returned" => do.ret = do.lastOutcome)

\* C4 witness: a POST whose only attempt got a 503 has returned it.
C4_Witness ==
    /\ do.pc = "returned"
    /\ do.method = "POST"
    /\ do.attempts = 1
    /\ do.ret = RespOutcome(503)

\* C5 as stated: an idempotent request whose every attempt fails with a
\* transient timeout (context never cancelled) ends after exactly
\* maxRetries + 1 attempts.
C5_ExactlyRPlusOne ==
    (/\ do.pc = "returned"
     /\ do.method \in IdempotentMethods
     /\ do.attempts >= 1
     /\ do.timeouts = do.attempts
     /\ do.ctx \notin ctxDone) =>
        do.attempts = do.cfg.MaxRetries + 1

\* C5 amended: Do never makes more than maxRetries + 1 attempts; when every
\* attempt fails with a transient timeout it makes exactly maxRetries + 1
\* unless the elapsed-time ceiling is reached or the context is cancelled
\* first, and the error it returns wraps the timeout and names maxRetries.
C5_AtMostRPlusOne ==
    (do.method \in IdempotentMethods) =>
        /\ do.attempts <= do.cfg.MaxRetries + 1
        /\ (/\ do.pc = "returned"
            /\ do.attempts >= 1
            /\ do.timeouts = do.attempts) =>
               /\ BudgetSpent
               /\ do.ret = [resp |-> 0,
                            err |-> AfterRetries(do.cfg.MaxRetries,
                                                 TransportErr("timeout"))]

\* C5 witness: with three retries, four attempts have timed out and Do has
\* returned.
C5_Witness ==
    /\ do.pc = "returned"
    /\ do.method = "GET"
    /\ do.cfg.MaxRetries = 3
    /\ do.attempts = 4
    /\ do.timeouts = 4

\* C6: when the first two attempts of an idempotent request fail with a
\* timeout and the third gets a status that is not retriable, Do returns that
\* response with a nil error; and every attempt after the first is preceded
\* by a backoff wait of its own.
C6_ThirdAttemptSucceeds ==
    (do.method \in IdempotentMethods) =>
        /\ (do.pc = "inflight") => do.waits = do.attempts - 1
        /\ (/\ do.pc = "returned"
            /\ do.attempts = 3
            /\ do.timeouts = 2
            /\ do.lastOutcome.err = NoErr
            /\ do.lastOutcome.resp \notin RetriableStatuses) =>
               /\ do.ret = RespOutcome(do.lastOutcome.resp)
               /\ do.waits = 2
               /\ do.elapsed >= BackoffInterval(1) + BackoffInterval(2)

\* C6 witness: a GET has returned 200 from its third attempt after two
\* timeouts.
C6_Witness ==
    /\ do.pc = "returned"
    /\ do.method = "GET"
    /\ do.attempts = 3
    /\ do.timeouts = 2
    /\ do.ret = RespOutcome(200)

\* the transport errors the claim lists as transient
C7_ListedTransient(e) ==
    /\ e.kind = "transport"
    /\ e.class \in {"timeout", "deadline", "dns", "opErr", "econnrefused",
                    "econnreset", "eof", "unexpectedEOF"}

\* the same list without the timeouts that are the context's deadline
C7_Transient(e) ==
    /\ C7_ListedTransient(e)
    /\ e.class # "deadline"

\* C7 as stated: after an attempt of an idempotent request fails with a
\* transport error, Do goes on to retry (a backoff wait, or gives up only
\* because the budget is spent) iff the error is a timeout, a DNS failure, a
\* connection-level operational error, ECONNREFUSED/ECONNRESET or (unexpected)
\* EOF; any other error is returned after that attempt.
C7_RetriedIffListed ==
    (do.method \in IdempotentMethods /\ do.lastOutcome.err # NoErr) =>
        /\ (do.pc \in {"backoff", "operation", "inflight"}) =>
               C7_ListedTransient(do.lastOutcome.err)
        /\ (do.pc = "returned" /\ C7_ListedTransient(do.lastOutcome.err)) =>
               BudgetSpent
        /\ (do.pc = "returned" /\ ~C7_ListedTransient(do.lastOutcome.err)
              /\ do.attempts = 1) =>
               do.ret = do.lastOutcome

\* C7 amended: the same, except that an error that is the context's
\* cancellation or deadline (context.Canceled, context.DeadlineExceeded) is
\* never retried, a deadline being a timeout notwithstanding.
C7_RetriedIffTransient ==
    (do.method \in IdempotentMethods /\ do.lastOutcome.err # NoErr) =>
        /\ (do.pc \in {"backoff", "operation", "inflight"}) =>
               C7_Transient(do.lastOutcome.err)
        /\ (do.pc = "returned" /\ C7_Transient(do.lastOutcome.err)) =>
               /\ BudgetSpent
               /\ do.ret.resp = 0
               /\ do.ret.err = AfterRetries(do.cfg.MaxRetries, do.lastOutcome.err)
        /\ (do.pc = "returned" /\ ~C7_Transient(do.lastOutcome.err)) =>
               /\ do.ret.resp = 0
               /\ do.ret.err # NoErr
               /\ (do.attempts = 1 => do.ret = do.lastOutcome)

\* C7 witness: the first attempt of a GET ended with the context's deadline
\* and Do returned that error without a retry.
C7_Witness ==
    /\ do.pc = "returned"
    /\ do.method = "GET"
    /\ do.attempts = 1
    /\ do.cfg.MaxRetries = 3
    /\ do.ctx \notin ctxDone
    /\ do.ret = ErrOutcome("deadline")

\* C8: after an attempt of an idempotent request receives a response, Do
\* goes on to retry iff the status is 408, 429, 500, 502, 503 or 504, with
\* the body of that response drained and closed before any next attempt (it
\* gives up, with an error naming the status, only when the budget is spent);
\* any other status is returned as it is, with a nil error, its body open,
\* and no further attempt.
C8_RetriableStatus ==
    (/\ do.method \in IdempotentMethods
     /\ do.lastOutcome.resp # 0) =>
        /\ (do.pc \in {"backoff", "operation", "inflight"}) =>
               /\ do.lastOutcome.resp \in RetriableStatuses
               /\ do.openBodies = 0
        /\ (do.pc = "returned" /\ do.lastOutcome.resp \in RetriableStatuses) =>
               /\ BudgetSpent
               /\ do.openBodies = 0
               /\ do.ret = [resp |-> 0,
                            err |-> AfterRetries(do.cfg.MaxRetries,
                                       RetriableStatusErr(do.lastOutcome.resp))]
        /\ (do.pc = "returned" /\ do.lastOutcome.resp \notin RetriableStatuses) =>
               /\ do.ret = do.lastOutcome
               /\ do.openBodies = 1

\* C8 witness: the second attempt of a PUT is in flight after a 429, whose
\* body is closed.
C8_Witness ==
    /\ do.pc = "inflight"
    /\ do.method = "PUT"
    /\ do.attempts = 2
    /\ do.lastOutcome = RespOutcome(429)
    /\ do.openBodies = 0

\* C9: once the context of an idempotent request is cancelled, no step of Do
\* issues a further attempt: the operation that starts next ends Do with an
\* error and no response, and a pending backoff wait leads to nothing else.
C9_NoAttemptAfterCancel ==
    [][ (/\ do.method \in IdempotentMethods
         /\ do.pc \in {"operation", "backoff"}
         /\ do.ctx \in ctxDone) =>
            /\ do'.attempts = do.attempts
            /\ do'.pc # "inflight"
            /\ (do.pc = "operation" =>
                   /\ do'.pc = "returned"
                   /\ do'.ret.resp = 0
                   /\ do'.ret.err # NoErr) ]_vars

\* C9 witness: Do returned at the context check that followed the first
\* backoff wait: one attempt, one wait, context cancelled.
C9_Witness ==
    /\ do.pc = "returned"
    /\ do.method = "GET"
    /\ do.ctx \in ctxDone
    /\ do.attempts = 1
    /\ do.waits = 1
    /\ do.ret.err # NoErr

\* err is e, or wraps it with the retry count
ErrIsOrWraps(err, e) ==
    \/ err = e
    \/ (err.kind = "afterRetries" /\ err.inner = e)

\* C10: when Do fails an idempotent request after one or more attempts,
\* the error it returns is or wraps the error of the most recent attempt.
C10_WrapsLastAttempt ==
    (/\ do.pc = "returned"
     /\ do.method \in IdempotentMethods
     /\ do.attempts >= 1
     /\ do.ret.err # NoErr) =>
        ErrIsOrWraps(do.ret.err, LastAttemptErr)

(***************************************************************************)
(* Claims about the upload tab, checked under SpecTab and SpecUpload.      *)
(***************************************************************************)
\* the uploads whose transfer goroutine is inside provider.Upload
InFlight == {g \in Uploads : up[g].tr = "upload"}

\* this step is an onUpload that found the tab uploading
TappedWhileUploading ==
    \E g \in Uploads : up[g].tappedAt = "none" /\ up'[g].tappedAt # "none"

\* this step leaves the goroutines and channels of every upload as they are
UploadsUntouched ==
    \A g \in Uploads : up'[g] = [up[g] EXCEPT !.tappedAt = up'[g].tappedAt]

\* C1 as stated: at most one transfer is in flight at any time, and an
\* onUpload that finds the tab uploading starts no transfer, leaves no
\* request behind in the tab, and has no effect on the running upload.
C1_StartWhileUploadingNoEffect ==
    [][ /\ Cardinality(InFlight') <= 1
        /\ TappedWhileUploading =>
              /\ gen' = gen
              /\ tab' = tab
              /\ UploadsUntouched
              /\ ctxDone' = ctxDone ]_vars

\* C1 amended: at most one transfer is in flight at any time and a transfer
\* starts only in a step that finds the tab not uploading; an onUpload that
\* finds the tab uploading starts no transfer and leaves no request behind
\* in the tab: it is a cancel request, which calls the cancel function of the
\* running upload if the tab holds one, and does nothing else.
C1_SingleFlight ==
    [][ /\ Cardinality(InFlight') <= 1
        /\ (InFlight' \ InFlight # {}) => ~tab.isUploading
        /\ TappedWhileUploading =>
              /\ gen' = gen
              /\ tab' = tab
              /\ UploadsUntouched
              /\ ctxDone' = ctxDone \cup ({tab.cancelUpload} \ {0}) ]_vars

\* C1 witness: onUpload ran again while the first upload was in flight; the
\* upload is still the only one, and its context is cancelled.
C1_Witness ==
    /\ gen = 1
    /\ tab.isUploading
    /\ InFlight = {1}
    /\ up[1].tappedAt = "upload"
    /\ 1 \in ctxDone

\* C2: for every upload, the transfer goroutine sends one completion, and
\* only after provider.Upload, into the one-slot result channel;
\* updateUIFromProgress receives it once (the value is in the channel or has
\* been received, never both, never twice), leaves its select loop when it
\* does, and publishes no progress afterwards.
C2_OneTerminalValue ==
    \A g \in Uploads :
        /\ up[g].sent = (IF up[g].tr \in {"defers", "done"} THEN 1 ELSE 0)
        /\ Len(up[g].uploadResult) <= UploadResultCap
        /\ Len(up[g].uploadResult) + up[g].received = up[g].sent
        /\ up[g].received = (IF up[g].ui \in {"cancelUpload", "latestProgress", "done"}
                             THEN 1 ELSE 0)
        /\ up[g].ui \in {"none", "select", "cancelUpload", "latestProgress", "done"}
        /\ ~up[g].publishedAfter

\* C2 witness: the upload's completion was sent and received once, progress
\* had been published while it ran, updateUIFromProgress has returned and
\* the result is on the screen.
C2_Witness ==
    /\ up[1].sent = 1
    /\ up[1].received = 1
    /\ up[1].uploadResult = <<>>
    /\ up[1].ui = "done"
    /\ tab.progressBinding = Progress(1)
    /\ tab.dialogs = <<[of |-> 1, title |-> "Upload Results"]>>

\* C3: when the cancel function of an upload was called while its transfer
\* was still inside provider.Upload, the dialog the upload ends with has the
\* title "Upload Cancelled" (it is neither the result nor another error).
C3_CancelEndsCancelled ==
    \A i \in 1..Len(tab.dialogs) :
        LET d == tab.dialogs[i]
        IN  (up[d.of].tappedAt = "upload" /\ d.of \in ctxDone) =>
                d.title = "Upload Cancelled"

(***************************************************************************)
(* Claims about the chunked providers, checked under SpecParts.            *)
(***************************************************************************)
\* the error is context.Canceled under errors.Is, or the "upload cancelled"
\* error of the providers
RecognisableCancel(e) == ErrIsCanceled(e) \/ ErrContains(e, "cancelled")

\* C11: when the request an upload was waiting for failed because the
\* upload's context was cancelled (at the context check of an attempt, or
\* with context.Canceled out of the attempt), the error Upload returns is
\* recognisable as a cancellation.
C11_CancelRecognisable ==
    (parts.pc = "returned" /\ parts.cause = "canceled") =>
        RecognisableCancel(parts.ret.err)

\* ceil(s / c)
Ceil(s, c) == (s + c - 1) \div c

\* the parts 1..n in order
PartList(n) == [i \in 1..n |-> i]

\* C12 as stated: at finalize the number of parts issued is
\* ceil(fileSize / chunkSize), the last part spans fileSize mod chunkSize
\* blocks (chunkSize when that is 0), and the list submitted is 1..N.
C12_PartsAreCeil ==
    parts.finalized =>
        /\ Len(parts.issued) = Ceil(parts.fileSize, parts.chunkSize)
        /\ (parts.issued # <<>> =>
               parts.issued[Len(parts.issued)].size =
                  (IF parts.fileSize % parts.chunkSize = 0 THEN parts.chunkSize
                   ELSE parts.fileSize % parts.chunkSize))
        /\ parts.submitted = PartList(Len(parts.issued))

\* C12 amended: at finalize the parts issued are the totalParts the server
\* announced, part k from block (k-1)*chunkSize over chunkSize blocks or
\* what is left of the file, and the list submitted is 1..totalParts; when
\* the server's totalParts is ceil(fileSize / chunkSize), the last part spans
\* fileSize mod chunkSize blocks (chunkSize when that is 0).
C12_PartsAsAnnounced ==
    parts.finalized =>
        /\ Len(parts.issued) = parts.totalParts
        /\ \A k \in 1..Len(parts.issued) :
              parts.issued[k] =
                 [num |-> k, start |-> (k - 1) * parts.chunkSize,
                  size |-> Min(parts.chunkSize,
                               parts.fileSize - (k - 1) * parts.chunkSize)]
        /\ parts.submitted = PartList(parts.totalParts)
        /\ (parts.totalParts = Ceil(parts.fileSize, parts.chunkSize)
              /\ parts.issued # <<>>) =>
               parts.issued[Len(parts.issued)].size =
                  (IF parts.fileSize % parts.chunkSize = 0 THEN parts.chunkSize
                   ELSE parts.fileSize % parts.chunkSize)

\* C12 witness: a Rootz upload of 3 blocks in chunks of 2 has completed with
\* two parts, the second of one block.
C12_Witness ==
    /\ parts.pc = "returned"
    /\ parts.ret.result
    /\ parts.provider = "Rootz"
    /\ parts.fileSize = 3
    /\ parts.chunkSize = 2
    /\ parts.totalParts = 2
    /\ parts.issued[2].size = 1
    /\ parts.submitted = <<1, 2>>

\* the kinds of the requests an upload has made
CallKinds(p) == {p.calls[i].kind : i \in DOMAIN p.calls}

\* C23: a Rootz upload of a file under 4 MiB makes no request but the one
\* POST of the small path, attempted once, and returns a result only after
\* that POST; an upload of 4 MiB or more begins with the init request of the
\* chunked path and never makes the small path's POST.
C23_OnePath ==
    (parts.provider = "Rootz" /\ parts.pc # "idle") =>
        IF parts.fileSize < RootzMultipartThreshold
        THEN /\ CallKinds(parts) \subseteq {"small"}
             /\ Len(parts.calls) <= 1
             /\ parts.pc \in {"small", "returned"}
             /\ parts.pc = "small" =>
                   (Len(parts.calls) = 1 /\ do.method = "POST" /\ do.attempts <= 1)
             /\ parts.ret.result => Len(parts.calls) = 1
        ELSE /\ "small" \notin CallKinds(parts)
             /\ parts.pc # "small"
             /\ parts.calls # <<>>
             /\ parts.calls[1].kind = "start"
             /\ \A i \in 2..Len(parts.calls) : parts.calls[i].kind # "start"

\* C23 witness: a Rootz upload of a file one block under the threshold has
\* returned its result after the single POST.
C23_Witness ==
    /\ parts.provider = "Rootz"
    /\ parts.fileSize = RootzMultipartThreshold - 1
    /\ parts.pc = "returned"
    /\ parts.ret.result
    /\ parts.calls = <<[kind |-> "small", part |-> 0, late |-> FALSE]>>

\* the parts of the requests of one kind, in the order they were made
RECURSIVE CallParts(_, _)
CallParts(calls, kind) ==
    IF calls = <<>> THEN <<>>
    ELSE IF calls[1].kind = kind
    THEN <<calls[1].part>> \o CallParts(Tail(calls), kind)
    ELSE CallParts(Tail(calls), kind)

\* the parts 1..n have been recorded as uploaded
PartsDone(p, n) == \A j \in 1..n : p.uploadedParts[j] = j

\* C26: the parts of a chunked upload are sent one after the other in
\* increasing number, part k only after the parts before it have succeeded;
\* the finalize request is made, last, only after every part 1..N has
\* succeeded; and an upload that ended before its last part succeeded has
\* made no finalize request and no request for a later part, and when it
\* returned it returned an error and no result.
C26_SequentialParts ==
    LET puts == CallParts(parts.calls, "put")
        asked == CallParts(parts.calls, "chunkURL")
        n == Len(parts.calls)
    IN  /\ puts = PartList(Len(puts))
        /\ asked = PartList(Len(asked))
        /\ Len(puts) <= parts.totalParts
        /\ \A k \in 1..Len(puts) : PartsDone(parts, k - 1)
        /\ \A i \in 1..n :
              parts.calls[i].kind = "complete" =>
                 (i = n /\ Len(puts) = parts.totalParts
                    /\ PartsDone(parts, parts.totalParts))
        /\ (parts.pc \in {"returned", "panic"} /\ "start" \in CallKinds(parts)
              /\ "complete" \notin CallKinds(parts)) =>
                 /\ ~parts.finalized
                 /\ ~parts.ret.result
                 /\ parts.pc = "returned" => parts.ret.err # NoErr
                 /\ \A k \in 1..Len(puts) : puts[k] <= parts.partNum
        /\ (parts.ret.result /\ "start" \in CallKinds(parts)) =>
              (parts.finalized /\ PartsDone(parts, parts.totalParts))

\* C26 witness: the second of three parts of an AkiraBox upload failed with
\* a 503 after the first had succeeded; Upload has returned the error, and
\* neither the third part nor the finalize request was sent.
C26_Witness ==
    /\ parts.provider = "AkiraBox"
    /\ parts.pc = "returned"
    /\ parts.totalParts = 3
    /\ parts.partNum = 2
    /\ parts.uploadedParts = <<1, 0, 0>>
    /\ CallParts(parts.calls, "put") = <<1, 2>>
    /\ ErrContains(parts.ret.err, "503")
    /\ ~parts.ret.result

\* C27 as stated: no request for a part and no finalize request is made
\* once the upload's context is cancelled.
C27_NoCallAfterCancel ==
    \A i \in DOMAIN parts.calls :
       parts.calls[i].kind \in {"chunkURL", "put", "complete"} =>
          ~parts.calls[i].late

\* the check at the top of an iteration finds the context cancelled: Upload
\* returns the "upload cancelled" error and no request has been added
CheckStops ==
    (parts.pc = "check" /\ parts.partNum <= parts.totalParts
       /\ PartsCtx \in ctxDone) =>
          /\ parts'.pc = "returned"
          /\ parts'.ret = Completion(FALSE, Wrap("upload parts failed",
                                                 ErrUploadCancelled))
          /\ parts'.calls = parts.calls

\* C27 amended: when the check at the top of a per-part iteration finds the
\* context cancelled, Upload returns the "upload cancelled" error with no
\* request made for that part or a later one and no finalize request; a
\* request made after the cancellation in the windows the check does not
\* cover (between the check and the part's requests, between the last part
\* and finalize) gets no response and fails with the context's error.
C27_CheckedCancel ==
    /\ [][CheckStops]_vars
    /\ [](parts.late /\ do.pc = "returned" =>
             (do.ret.resp # 200 /\ RecognisableCancel(do.ret.err)))

\* C27 witness: the context was cancelled while the first of three parts
\* was being sent; the part succeeded, the check before the second part
\* returned "upload cancelled", and no request was made after it.
C27_Witness ==
    /\ parts.pc = "returned"
    /\ parts.ret.err = Wrap("upload parts failed", ErrUploadCancelled)
    /\ parts.totalParts = 3
    /\ parts.uploadedParts = <<1, 0, 0>>
    /\ CallParts(parts.calls, "put") = <<1>>
    /\ "complete" \notin CallKinds(parts)
    /\ \A i \in DOMAIN parts.calls : ~parts.calls[i].late

\* the last attempt of the request ended in a transient error or a
\* retriable status
LastAttemptTransient ==
    \/ isTemporaryError(do.lastOutcome.err)
    \/ do.lastOutcome.err = NoErr /\ do.lastOutcome.resp \in RetriableStatuses

\* C29: when an idempotent request of a chunked provider's upload has
\* returned after an attempt that met a transient error or a retriable
\* status, the retry budget was spent: the attempts allowed were made, the
\* elapsed-time ceiling was reached, or the context was cancelled.
C29_IdempotentRetried ==
    (PartsInFlight /\ do.pc = "returned" /\ do.method \in IdempotentMethods
       /\ LastAttemptTransient) => BudgetSpent

\* the same, for the requests of Rootz alone
C29_RootzRetried == parts.provider = "Rootz" => C29_IdempotentRetried

\* C30: whatever a server answers, a chunked upload never panics: a
\* response with a field missing or of another type, or a batch of URLs
\* without a part's URL, ends the upload with an error that Upload returns.
C30_NoPanic == parts.pc # "panic"

(***************************************************************************)
(* Claims about the progress channel, checked under SpecSend.              *)
(***************************************************************************)
\* C24: the transfer path of an upload never waits on a send to the
\* progress channel, whatever the provider and the send site: an update
\* that finds no room is dropped and the transfer goes on.
C24_NeverSuspends == send.pc # "blocked"

\* the same for the sends of the onProgress callbacks alone
C24_CallbackNeverSuspends ==
    (send.provider = "AkiraBox" \/ (send.provider = "Rootz" /\ send.path = "large"))
       => C24_NeverSuspends

(***************************************************************************)
(* Claims about request bodies, checked under SpecBody.                    *)
(***************************************************************************)
\* C25: every attempt Do makes for a request with a body, the first and
\* each retry, hands the HTTP client a stream that stands at the start of
\* the body, so that the attempt carries the whole body and nothing an
\* earlier attempt has read is missing from it.
C25_FreshBodyEachAttempt ==
    \A i \in DOMAIN body.sends : body.sends[i].from = 0

\* the same for the requests whose body has a GetBody
C25_GetBodyFresh == HasGetBody(body.kind) => C25_FreshBodyEachAttempt

(***************************************************************************)
(* Claims about the session-POST providers, checked under SpecSession.     *)
(***************************************************************************)
\* C28: the POST is sent only after a session request answered with HTTP
\* 200 and an envelope of status 200; an upload whose session request
\* failed has returned an error without sending the POST; and Upload
\* returns a result only when the POST was answered with HTTP 200 and an
\* array that is not empty, and an error otherwise.
C28_PostAfterSession ==
    /\ sess.posted => (sess.sessionHTTP = 200 /\ sess.envelope = "status200")
    /\ sess.pc = "returned" =>
          /\ ~sess.posted => (sess.ret.err # NoErr /\ ~sess.ret.result)
          /\ sess.ret.result <=>
                (sess.posted /\ sess.postHTTP = 200 /\ sess.array = "nonEmpty")
          /\ sess.ret.result <=> sess.ret.err = NoErr

\* the same for FileKeeper alone
C28_FileKeeper == sess.provider = "FileKeeper" => C28_PostAfterSession

(***************************************************************************)
(* Claims about the life of an upload, checked under SpecUpload and        *)
(* SpecUploadFair.                                                         *)
(***************************************************************************)
\* C13: the terminal value of an upload is on the result channel, or has
\* been taken from it, only when the source file is closed.
C13_ClosedBeforeDelivered ==
    \A g \in Uploads : up[g].sent > 0 => ~up[g].fileOpen

\* C14: every started upload reaches a terminal outcome, shown in its
\* dialog, with the tab back to idle (isUploading false).
C14_EventuallyIdle ==
    (gen = 1) ~> (~tab.isUploading /\ Len(tab.dialogs) = 1)

(***************************************************************************)
(* Claims about the helpers.                                               *)
(***************************************************************************)
\* C15: a ByteCounter starts at 0 and loses no update: N() is the number of
\* Add(1) calls issued so far, so once every goroutine has made its calls it
\* is their total, and what a concurrent reader saw lies between 0 and the
\* number of adds issued
C15_NoLostUpdate ==
    /\ counter.pc = "idle" => counter.n = 0
    /\ counter.n = counter.issued
    /\ 0 <= counter.seen /\ counter.seen <= counter.issued
    /\ (counter.pc = "running" /\ \A k \in Goroutines : counter.left[k] = 0)
          => counter.n = counter.total

\* C15 witness: every goroutine has made all its adds, the most the bounds
\* allow, and the reader has seen the total
C15_Witness ==
    /\ counter.pc = "running"
    /\ \A k \in Goroutines : counter.left[k] = 0
    /\ counter.total = MaxGoroutines * MaxAdds
    /\ counter.n = counter.total
    /\ counter.seen = counter.total

\* the bytes of the calls that returned some
RECURSIVE PositiveCounts(_)
PositiveCounts(rs) ==
    IF rs = <<>> THEN <<>>
    ELSE (IF Head(rs).n > 0 THEN <<Head(rs).n>> ELSE <<>>) \o PositiveCounts(Tail(rs))

RECURSIVE TotalBytes(_)
TotalBytes(rs) == IF rs = <<>> THEN 0 ELSE Head(rs).n + TotalBytes(Tail(rs))

\* C16: a counting wrapper returns exactly the (n, err) of the underlying
\* call; its callback is called once with n for each call that returned
\* n > 0 and never for n = 0, so the callback's arguments sum to the bytes
\* returned
C16_Transparent ==
    /\ stream.returned = stream.under
    /\ stream.cb => /\ stream.calls = PositiveCounts(stream.under)
                    /\ SumSeq(stream.calls) = TotalBytes(stream.returned)
    /\ ~stream.cb => stream.calls = <<>>

\* C16 witness: a wrapper with a callback has passed on a read of no bytes
\* with an error, a read of bytes with an error and a read of bytes without
C16_Witness ==
    /\ stream.cb
    /\ Len(stream.under) = MaxCalls
    /\ \E i, j, k \in 1..Len(stream.under) :
          /\ stream.under[i].n = 0 /\ stream.under[i].err = "EOF"
          /\ stream.under[j].n > 0 /\ stream.under[j].err = "error"
          /\ stream.under[k].n > 0 /\ stream.under[k].err = "nil"
    /\ Len(stream.calls) = 2

\* the last n elements of a sequence
LastN(s, n) == IF Len(s) <= n THEN s ELSE SubSeq(s, Len(s) - n + 1, Len(s))

\* an Update call that recorded a sample
C17_Recorded ==
    /\ calc.pc = "live"
    /\ calc'.op = "update"
    /\ calc'.s.lastUpdateTime > calc.s.lastUpdateTime

\* C17: the window of a SpeedCalculator never holds more than five samples;
\* an Update that records a sample appends its rate and keeps the five most
\* recent rates in arrival order, and returns the arithmetic mean of the
\* window
C17_WindowMean ==
    [][/\ Len(calc'.s.smoothingWindow) <= 5
       /\ C17_Recorded =>
             LET rate == ((calc'.s.lastBytesUploaded - calc.s.lastBytesUploaded)
                             * RateScale)
                         \div (calc'.s.lastUpdateTime - calc.s.lastUpdateTime)
                 w == LastN(Append(calc.s.smoothingWindow, rate), 5)
             IN  /\ calc'.s.smoothingWindow = w
                 /\ calc'.ret = Avg(SumSeq(w), Len(w))]_vars

\* C17 witness: a sixth sample has been recorded, which evicted the first,
\* and the window holds five rates that are not all the same
C17_Witness ==
    /\ calc.op = "update"
    /\ calc.samples = 6
    /\ Len(calc.s.smoothingWindow) = 5
    /\ calc.s.smoothingWindow[1] # calc.s.smoothingWindow[5]
    /\ calc.ret.sum # 0

\* the first Update call on a newly constructed SpeedCalculator has returned
C18_First == calc.op = "update" /\ calc.updates = 1 /\ ~calc.hasFresh

C19_ResetIsNew ==
    calc.hasFresh =>
       /\ calc.s = calc.fresh
       /\ calc.ret = calc.freshRet
       /\ calc.op = "reset" => /\ calc.s.smoothingWindow = <<>>
                               /\ calc.s.lastBytesUploaded = 0
       /\ (calc.op = "update" /\ calc.updates = 1 /\ calc.arg = 0)
             => calc.ret.sum = 0

\* C19 witness: a Reset cleared a calculator that held rates and a byte
\* count, and two samples have been recorded since, with a mean that is
\* not 0
C19_Witness ==
    /\ calc.hasFresh
    /\ calc.cleared
    /\ calc.op = "update"
    /\ calc.samples = 2
    /\ calc.ret.sum # 0

\* the text the rule describes for d whole seconds
C20_Text(d) ==
    IF d < 60 THEN EtaText("~%ds", d, 0)
    ELSE IF d < 3600 THEN EtaText("~%dm %ds", d \div 60, d % 60)
    ELSE EtaText("~%dh %dm", d \div 3600, (d \div 60) % 60)

\* C20: CalculateETA returns "calculating..." when the speed is 0 or less;
\* otherwise, with d the whole seconds of remaining / speed, "~{d}s" for
\* d < 60, "~{d div 60}m {d mod 60}s" for 60 <= d < 3600 and
\* "~{d div 3600}h {(d div 60) mod 60}m" for d >= 3600
C20_ETAText ==
    eta.pc = "returned" =>
       eta.out = IF eta.speed <= 0 THEN EtaText("calculating...", 0, 0)
                 ELSE C20_Text(TruncDiv(eta.bytesRemaining, eta.speed))

(***************************************************************************)
(* Claims about the configuration, checked under SpecPrefs.                *)
(***************************************************************************)
\* C21: the ConfigManagers are an independent store per provider: each
\* getter returns for every provider the last value set for it, or
\* disabled and no key if it was never set, whatever was set for other
\* providers and for the global configuration, which in turn is the last
\* one set; what a manager read is what was last set, whichever manager
\* over the same preferences read it
C21_PerProviderStore ==
    /\ \A P \in ProviderNames :
          LET want == IF P \in prefs.set THEN prefs.last[P]
                      ELSE ProviderConfig(FALSE, "")
          IN  /\ GetProviderConfig(prefs.data, P) = want
              /\ IsProviderEnabled(prefs.data, P) = want.Enabled
              /\ GetProviderAPIKey(prefs.data, P) = want.APIKey
    /\ GetGlobalConfig(prefs.data) =
          IF prefs.setGlobal THEN prefs.lastGlobal
          ELSE GlobalConfig("auto", "unfocused")
    /\ prefs.fresh =>
          /\ prefs.got = IF prefs.name \in prefs.set THEN prefs.last[prefs.name]
                         ELSE ProviderConfig(FALSE, "")
          /\ prefs.enabled = prefs.got.Enabled
          /\ prefs.apiKey = prefs.got.APIKey

\* C21 witness: with providers "Rootz" and "Rootz.enabled" set to different
\* values and the global configuration set, the second manager has read
\* what was set for "Rootz", while provider "global" was never set
C21_Witness ==
    /\ prefs.managers = 2
    /\ prefs.set = {"Rootz", "Rootz.enabled"}
    /\ prefs.setGlobal
    /\ prefs.last["Rootz"] = ProviderConfig(TRUE, "")
    /\ prefs.last["Rootz.enabled"] = ProviderConfig(FALSE, "global.theme")
    /\ prefs.fresh
    /\ prefs.by = 2
    /\ prefs.name = "Rootz"
    /\ prefs.got = ProviderConfig(TRUE, "")

(***************************************************************************)
(* Claims about the shared clients, checked under SpecShared.              *)
(***************************************************************************)
\* the clients constructed for a profile
C22_MadeFor(p) == {i \in 1..Len(shared.made) : shared.made[i].profile = p}

\* C22: Default() and LongLived() construct their client once each, however
\* the goroutines' first calls interleave; every call for a profile returns
\* that one client and never nil; the two clients are distinct, configured
\* with (30 s per try, 3 retries, 5 min in all) and (10 min per try,
\* 3 retries, 30 min in all), in half seconds
C22_OnceEach ==
    /\ \A p \in Profiles :
          /\ Cardinality(C22_MadeFor(p)) <= 1
          /\ Cardinality(shared.returned[p]) <= 1
          /\ \A cl \in shared.returned[p] :
                /\ cl.id # 0
                /\ C22_MadeFor(p) = {cl.id}
                /\ shared.client[p] = cl
    /\ \A a \in shared.returned["Default"], b \in shared.returned["LongLived"] :
          /\ a.id # b.id
          /\ a.cfg = [Timeout |-> 60, MaxRetries |-> 3, MaxElapsed |-> 600]
          /\ b.cfg = [Timeout |-> 1200, MaxRetries |-> 3, MaxElapsed |-> 3600]

\* C22 witness: two goroutines made the first calls of Default() at the same
\* time, and both have the one client that one of them constructed while
\* the other waited; a third has the other client from LongLived()
C22_Witness ==
    /\ Len(shared.made) = 2
    /\ \E c, d, e \in Callers :
          /\ c # d
          /\ shared.g[c].pc = "idle" /\ shared.g[c].profile = "Default"
          /\ shared.g[d].pc = "load" /\ shared.g[d].profile = "Default"
          /\ shared.g[c].ret = shared.made[1].client
          /\ shared.made[1].profile = "Default"
          /\ shared.g[e].pc = "idle" /\ shared.g[e].profile = "LongLived"
          /\ shared.g[e].ret = shared.made[2].client

(***************************************************************************)
(* Claims about the UploadTab's fields under its goroutines, checked under *)
(* SpecFields.                                                             *)
(***************************************************************************)
\* C31: every read and every write of latestProgress and of totalSize made
\* while a goroutine of an upload is running holds progressMutex: a write
\* the write lock, a read at least the read lock
C31_AllUnderMutex ==
    FldRunning(fields) =>
        \A a \in FldAccesses(fields) :
            /\ a.op = "write" => a.lock = "Lock"
            /\ a.op = "read" => a.lock \in {"Lock", "RLock"}

\* C32: once an upload has started, what the user sees is changed by a
\* background goroutine only through a data binding or inside fyne.Do; no
\* widget or dialog is created or shown directly from one
C32_OnlyBindingOrFyneDo ==
    \A s \in FldShows(fields) :
        s.by # "ui" => s.via \in {"binding", "fyne.Do"}

\* C36: once the ticker of an upload has cleared latestProgress, the field
\* holds no snapshot of that upload again, and the ticker of an upload
\* publishes only snapshots its own provider emitted
C36_NoStaleSnapshot ==
    /\ \A g \in Uploads :
          fields.up[g].ticker \in {"fyne.Do", "done"} =>
              fields.latestProgress # g
    /\ fields.progressBinding.by = fields.progressBinding.of

\* C38: the function a cancel request calls is never nil
C38_CancelNeverNil == ~fields.nilCall

(***************************************************************************)
(* Claims about MakeFriendly, checked under SpecFriendly.                  *)
(***************************************************************************)
\* the category the claim gives an error that reports the HTTP status s
C33_Category(s) ==
    CASE s \in {401, 403} -> "Auth"
      [] s \in {400, 413} -> "Validation"
      [] OTHER -> "Server"

\* C33: MakeFriendly classifies by category whatever the provider's text:
\* a cancellation is titled Upload Cancelled, an error that reports an HTTP
\* status is classified by that status (401/403 authentication, 400/413
\* validation, any other status a server error), wrapped or not, and an
\* error of no category is titled Unexpected Error
C33_ByCategory ==
    friendly.pc = "done" =>
        CASE friendly.in.case = "cancel" -> friendly.title = "Upload Cancelled"
          [] friendly.in.case = "status" ->
               friendly.type = C33_Category(friendly.in.status)
          [] OTHER -> friendly.title = "Unexpected Error"

(***************************************************************************)
(* Claims about the updater, checked under SpecRelease.                    *)
(***************************************************************************)
\* version a is strictly newer than version b in the order of
\* major.minor.patch
C34_Newer(a, b) ==
    \/ a[1] > b[1]
    \/ a[1] = b[1] /\ a[2] > b[2]
    \/ a[1] = b[1] /\ a[2] = b[2] /\ a[3] > b[3]

\* C34: CheckForUpdates returns the latest release exactly when its version
\* is strictly newer than the current one, and nil when it is equal or
\* older, in agreement with CompareVersions(current, new), which is 1 when
\* new is newer, 0 when they are equal and -1 when new is older
C34_UpdateIffNewer ==
    release.pc = "done" =>
        LET current == parseVersion(release.currentVersion)
            latest == parseVersion(TrimPrefixV(release.tagName))
        IN  /\ release.ret = "release" <=> C34_Newer(latest, current)
            /\ release.cmp = 1 <=> C34_Newer(latest, current)
            /\ release.cmp = -1 <=> C34_Newer(current, latest)

(***************************************************************************)
(* Claims about the values on the progress channel, checked under          *)
(* SpecEmitted.                                                            *)
(***************************************************************************)
\* C35: every UploadProgress a provider emits has 0 <= Percentage <= 100
\* and 0 <= BytesUploaded <= TotalBytes, whatever the provider and the
\* file's size, 0 included, so that the fraction the tab publishes,
\* Percentage / 100, lies between 0 and 1
C35_ProgressInRange ==
    emitted.any =>
        /\ 0 <= emitted.progress.Percentage
        /\ emitted.progress.Percentage <= 100
        /\ 0 <= emitted.progress.BytesUploaded
        /\ emitted.progress.BytesUploaded <= emitted.progress.TotalBytes

\* C35 witness: a chunked provider has emitted from the callback of its
\* second part, three blocks into a file of four
C35_Witness ==
    /\ emitted.any
    /\ emitted.path = "large"
    /\ emitted.partNum = 2
    /\ emitted.progress = UploadProgress(3, 4, 75)

(***************************************************************************)
(* Claims about the progress channel's close, checked under SpecUpload.    *)
(***************************************************************************)
\* C37: no goroutine of a provider sends on the progress channel after the
\* transfer goroutine has closed it
C37_NoSendOnClosed == \A g \in Uploads : up[g].pg # "panic"

(***************************************************************************)
(* Claims about the byte spans of the parts, checked under SpecParts.      *)
(***************************************************************************)
\* the blocks of the first n parts issued, added up
RECURSIVE IssuedBytes(_, _)
IssuedBytes(issued, n) ==
    IF n = 0 THEN 0 ELSE IssuedBytes(issued, n - 1) + issued[n].size

\* the blocks of the file the k-th part issued covers
IssuedSpan(issued, k) ==
    {b \in 0..(MaxFileSize + MaxParts * MaxChunkSize) :
        issued[k].start <= b /\ b < issued[k].start + issued[k].size}

\* C39: when the server's totalParts is ceil(fileSize / chunkSize) and
\* chunkSize is positive, the parts issued are numbered 1, 2, ..., each of
\* 1..chunkSize blocks and starting where the one before ended, the first at
\* block 0, so no two spans share a block; once the last part is sent the
\* spans cover every block of the file once and their sizes add up to
\* fileSize.
C39_SpansPartitionFile ==
    (parts.chunkSize > 0
       /\ parts.totalParts = Ceil(parts.fileSize, parts.chunkSize)) =>
        /\ \A k \in 1..Len(parts.issued) :
              /\ parts.issued[k].num = k
              /\ parts.issued[k].size \in 1..parts.chunkSize
              /\ parts.issued[k].start = IssuedBytes(parts.issued, k - 1)
        /\ \A j, k \in 1..Len(parts.issued) :
              j < k => /\ IssuedSpan(parts.issued, j) \cap
                            IssuedSpan(parts.issued, k) = {}
                       /\ parts.issued[j].start < parts.issued[k].start
        /\ parts.finalized =>
              /\ Len(parts.issued) = parts.totalParts
              /\ IssuedBytes(parts.issued, Len(parts.issued)) = parts.fileSize
              /\ \A b \in 0..(parts.fileSize - 1) :
                    Cardinality({k \in 1..Len(parts.issued) :
                                    b \in IssuedSpan(parts.issued, k)}) = 1

\* C39 witness: an AkiraBox upload of 3 blocks in chunks of 2 has completed;
\* the server announced 2 parts, and the parts sent were blocks 0-1 and
\* block 2.
C39_Witness ==
    /\ parts.pc = "returned"
    /\ parts.ret.result
    /\ parts.provider = "AkiraBox"
    /\ parts.fileSize = 3
    /\ parts.chunkSize = 2
    /\ parts.totalParts = Ceil(3, 2)
    /\ parts.issued = <<[num |-> 1, start |-> 0, size |-> 2],
                        [num |-> 2, start |-> 2, size |-> 1]>>

(***************************************************************************)
(* Claims about the helper goroutines, checked under SpecHelpersFair.      *)
(***************************************************************************)
\* C40: once Upload has returned, with a result, an error or a
\* cancellation, the writer goroutine has returned or returns, and the
\* progress goroutine has left or leaves both its selects: it returns, or
\* it panics on the send if the caller has closed the channel by then.
C40_HelpersTerminate ==
    (helpers.pc = "returned") ~>
        (WriterOver(helpers) /\ ProgressOver(helpers))

\* C40 witness: Upload returned while the writer was in io.Copy with a block
\* still to write and the progress goroutine stood at its inner select with
\* the channel full; both have returned since.
C40_Witness ==
    /\ helpers.pc = "returned"
    /\ helpers.atReturn = [writer |-> "copy", prog |-> "inner"]
    /\ helpers.remaining > 0
    /\ helpers.chan = MaxChanCap
    /\ helpers.writer = "done"
    /\ helpers.prog = "done"

====
